---- MODULE Spec2Model ----
(***************************************************************************)
(* Offline-first synchronisation subsystem of cga-gestion-v2.              *)
(*                                                                         *)
(*   src/utils/sync.ts       outbox (sync_queue), upload, download, flags  *)
(*   src/utils/formSync.ts   form sync work queue, form response upload    *)
(*   src/utils/database/*.ts, src/utils/forms.ts, src/unnamed/part_008     *)
(*                           repositories (local write + outbox enqueue)   *)
(*                                                                         *)
(* The program is single threaded; every `await` is a suspension point, so *)
(* an async function is a process whose steps are the code between two     *)
(* awaits.  All components share one SQLite connection ('app.db'), hence   *)
(* one transaction state.                                                  *)
(***************************************************************************)
EXTENDS Integers, Sequences, FiniteSets, TLC

VARIABLES
  isFormSyncInProgress,  \* formSync.ts:8
  formSyncQueue,         \* formSync.ts:9   queued wrappedOperations (operation ids)
  formOp,                \* state of every operation handed to queueFormSync
  execWaiting,           \* executeNextInQueue activations suspended at `await nextSync()`
  syncInProgress,        \* sync.ts:7
  globalTransaction,     \* sync.ts:9
  syncTimeout,           \* sync.ts:8       the pending debounce timer
  db,                    \* local store: tables, sync_queue, autoincrement counters
  txSnap,                \* NoTx, or the store as it was at BEGIN TRANSACTION
  clock,                 \* wall clock, in days
  remote,                \* remote collaborator: rows per table
  wire,                  \* what the remote has received, per sync_queue row
  dl,                    \* activations of downloadUpdates
  psq,                   \* activations of processSyncQueue
  ufr,                   \* activation of uploadFormResponses' syncOperation
  repo,                  \* activation of a repository mutation
  inp,                   \* input of the dispatch specification
  dfm,                   \* activation of downloadForms' syncOperation
  guard,                 \* the sync-session guards of the components
  session,               \* the sync session of every component
  initialSyncComplete,   \* AsyncStorage item 'initialSyncComplete' is set
  out,                   \* result of the function a specification applies to inp
  idb                    \* activations of initDatabase

formVars  == <<isFormSyncInProgress, formSyncQueue, formOp, execWaiting>>
\* sync.ts:8: `let syncTimeout = null`, no timer pending
NoTimer == 0

flagVars  == <<syncInProgress, globalTransaction, syncTimeout>>
storeVars == <<db, txSnap, clock>>
netVars   == <<remote, wire>>
procVars  == <<dl, psq, ufr, repo>>
appVars   == <<inp, out, idb, dfm, guard, session, initialSyncComplete>>
vars == <<formVars, flagVars, storeVars, netVars, procVars, appVars>>

(***************************************************************************)
(* Bounds of the model                                                     *)
(***************************************************************************)
MaxFormOps == 5      \* operations handed to queueFormSync
MaxKey == 12         \* largest id used in a composite key
MaxPsq == 1          \* concurrent activations of processSyncQueue
MaxQueue == 2        \* sync_queue rows enqueued in the upload specification
MaxClock == 8        \* days the clock may advance
MaxDl == 2           \* activations of downloadUpdates
MaxCalls == 2        \* repository calls
MaxId == 2           \* ids of the records a repository call names

(***************************************************************************)
(* Strings: record_id is TEXT.  A string is a sequence of one-character    *)
(* strings; numbers are formatted and parsed as JavaScript does.           *)
(***************************************************************************)
Digits == <<"0", "1", "2", "3", "4", "5", "6", "7", "8", "9">>
NaN == -1

RECURSIVE toString(_)
toString(n) == IF n < 10 THEN <<Digits[n + 1]>>
               ELSE toString(n \div 10) \o <<Digits[(n % 10) + 1]>>

IsDigit(c) == \E d \in 1..10 : Digits[d] = c
DigitVal(c) == (CHOOSE d \in 1..10 : Digits[d] = c) - 1

RECURSIVE DigitsValue(_, _)
DigitsValue(s, acc) ==
  IF s = <<>> THEN acc ELSE DigitsValue(Tail(s), acc * 10 + DigitVal(Head(s)))

RECURSIVE LeadingDigits(_)
LeadingDigits(s) ==
  IF s = <<>> \/ ~IsDigit(Head(s)) THEN <<>> ELSE <<Head(s)>> \o LeadingDigits(Tail(s))

\* parseInt(s): the longest numeric prefix, NaN when there is none
parseInt(s) == IF LeadingDigits(s) = <<>> THEN NaN ELSE DigitsValue(LeadingDigits(s), 0)

\* Number(s): the whole string must be numeric; Number("") is 0
Number(s) == IF s = <<>> THEN 0
             ELSE IF \A k \in 1..Len(s) : IsDigit(s[k]) THEN DigitsValue(s, 0) ELSE NaN

RECURSIVE split(_, _)
split(s, sep) ==
  IF \A k \in 1..Len(s) : s[k] # sep THEN <<s>>
  ELSE LET k == CHOOSE j \in 1..Len(s) : s[j] = sep /\ \A h \in 1..(j - 1) : s[h] # sep
       IN <<SubSeq(s, 1, k - 1)>> \o split(SubSeq(s, k + 1, Len(s)), sep)

(***************************************************************************)
(* formSync.ts: the form sync work queue                                   *)
(***************************************************************************)
FormOps == 1..MaxFormOps

\* queueFormSync (the Promise executor): run now if the lock is free, else queue
queueFormSync(o) ==
  /\ formOp[o] = "new"
  /\ \A p \in FormOps : p < o => formOp[p] # "new"
  /\ IF ~isFormSyncInProgress
       THEN /\ isFormSyncInProgress' = TRUE
            /\ formOp' = [formOp EXCEPT ![o] = "running"]
            /\ UNCHANGED formSyncQueue
       ELSE /\ formSyncQueue' = Append(formSyncQueue, o)
            /\ formOp' = [formOp EXCEPT ![o] = "queued"]
            /\ UNCHANGED isFormSyncInProgress
  /\ UNCHANGED <<execWaiting, flagVars, storeVars, netVars, procVars, appVars>>

\* executeNextInQueue that shifts the queue without calling what it shifted
executeNextInQueueSkipping(o, settled) ==
  IF Len(formSyncQueue) > 0
    THEN /\ formOp' = [formOp EXCEPT ![o] = settled]
         /\ formSyncQueue' = Tail(formSyncQueue)
         /\ isFormSyncInProgress' = FALSE
         /\ UNCHANGED execWaiting
    ELSE /\ formOp' = [formOp EXCEPT ![o] = settled]
         /\ isFormSyncInProgress' = FALSE
         /\ UNCHANGED <<formSyncQueue, execWaiting>>

\* executeNextInQueue up to its first await, called from wrappedOperation's finally
executeNextInQueue(o, settled) ==
  IF Len(formSyncQueue) > 0
    THEN /\ formOp' = [formOp EXCEPT ![o] = settled, ![Head(formSyncQueue)] = "running"]
         /\ formSyncQueue' = Tail(formSyncQueue)
         /\ execWaiting' = execWaiting \cup {Head(formSyncQueue)}
         /\ UNCHANGED isFormSyncInProgress
    ELSE /\ formOp' = [formOp EXCEPT ![o] = settled]
         /\ isFormSyncInProgress' = FALSE
         /\ UNCHANGED <<formSyncQueue, execWaiting>>

\* wrappedOperation after `await syncOperation()`: resolve or reject, then finally
wrappedOperation(o) ==
  /\ formOp[o] = "running"
  /\ \E settled \in {"resolved", "rejected"} : executeNextInQueue(o, settled)
  /\ UNCHANGED <<flagVars, storeVars, netVars, procVars, appVars>>

\* executeNextInQueue resumed after `await nextSync()`: release the lock
executeNextResume(o) ==
  /\ o \in execWaiting
  /\ formOp[o] \in {"resolved", "rejected"}
  /\ isFormSyncInProgress' = FALSE
  /\ execWaiting' = execWaiting \ {o}
  /\ UNCHANGED <<formSyncQueue, formOp, flagVars, storeVars, netVars, procVars, appVars>>

(***************************************************************************)
(* Local store (one SQLite connection shared by every component)           *)
(***************************************************************************)
\* downloadUpdates' table list, in dependency order
tables == <<
  [name |-> "users",                clearFirst |-> TRUE],
  [name |-> "companies",            clearFirst |-> TRUE],
  [name |-> "roles",                clearFirst |-> TRUE],
  [name |-> "user_roles",           clearFirst |-> FALSE],
  [name |-> "user_companies",       clearFirst |-> FALSE],
  [name |-> "forms",                clearFirst |-> TRUE],
  [name |-> "form_fields",          clearFirst |-> FALSE],
  [name |-> "form_companies",       clearFirst |-> FALSE],
  [name |-> "visits",               clearFirst |-> FALSE],
  [name |-> "form_responses",       clearFirst |-> FALSE],
  [name |-> "form_field_responses", clearFirst |-> FALSE] >>

TableNames == {tables[i].name : i \in 1..Len(tables)}

\* primary key columns of every table (initDatabase's CREATE TABLE statements)
KeyColumns(t) ==
  CASE t = "user_roles"     -> <<"user_id", "role_id">>
    [] t = "user_companies" -> <<"user_id", "company_id">>
    [] t = "form_companies" -> <<"form_id", "company_id">>
    [] OTHER                -> <<"id">>

\* writers of a row: the seed/initial data, a download activation, a repository call
Seed == <<"seed", 0>>
ByDl(n) == <<"dl", n>>
ByRepo(n) == <<"repo", n>>

\* a local row: its primary key (a tuple), its foreign keys (a tuple), an abstract
\* content, and who wrote it
Row(key, fk, val, by) == [key |-> key, fk |-> fk, val |-> val, by |-> by]

EmptyTables == [t \in TableNames |-> {}]
EmptyStore == [t |-> EmptyTables, q |-> <<>>, seq |-> 0, gone |-> {}]

\* transaction state of the connection
NoTx == [open |-> FALSE, snap |-> EmptyStore]
InTx == txSnap.open


\* the next AUTOINCREMENT id of a table
RECURSIVE MaxOf(_)
MaxOf(S) == IF S = {} THEN 0
            ELSE LET x == CHOOSE y \in S : TRUE
                     m == MaxOf(S \ {x})
                 IN IF x > m THEN x ELSE m
lastInsertRowId(store, t) == MaxOf({r.key[1] : r \in store.t[t]}) + 1

(***************************************************************************)
(* sync_queue (the outbox)                                                 *)
(***************************************************************************)
MaxRetry == 3
PurgeDays == 7

\* INSERT INTO sync_queue (table_name, record_id, operation, data):
\* synced and retry_count default to 0, created_at to CURRENT_TIMESTAMP
QueueInsert(store, tableName, recordId, operation, data, by) ==
  [store EXCEPT
     !.q = Append(@, [id |-> store.seq + 1, table_name |-> tableName,
                      record_id |-> recordId, operation |-> operation, data |-> data,
                      synced |-> 0, retry_count |-> 0, created_at |-> clock, by |-> by]),
     !.seq = @ + 1]

\* ORDER BY created_at ASC: rows with equal created_at keep their rowid order
RECURSIVE InsertSorted(_, _)
InsertSorted(sorted, r) ==
  IF sorted = <<>> THEN <<r>>
  ELSE IF r.created_at < Head(sorted).created_at THEN <<r>> \o sorted
  ELSE <<Head(sorted)>> \o InsertSorted(Tail(sorted), r)

RECURSIVE OrderByCreatedAt(_)
OrderByCreatedAt(s) ==
  IF s = <<>> THEN <<>>
  ELSE InsertSorted(OrderByCreatedAt(SubSeq(s, 1, Len(s) - 1)), s[Len(s)])

\* the columns of a fetched sync_queue row that the upload loops read
Change(r) == [id |-> r.id, table_name |-> r.table_name, record_id |-> r.record_id,
              operation |-> r.operation, data |-> r.data]

Changes(rows) == [k \in 1..Len(rows) |-> Change(rows[k])]

\* the same rows, newest first (ORDER BY created_at DESC)
PendingChangesDesc(q) ==
  LET asc == Changes(OrderByCreatedAt(
                 SelectSeq(q, LAMBDA r : r.synced = 0 /\ r.retry_count < MaxRetry)))
  IN [k \in 1..Len(asc) |-> asc[Len(asc) + 1 - k]]

\* SELECT * FROM sync_queue WHERE synced = 0 AND retry_count < 3 ORDER BY created_at ASC
PendingChanges(q) ==
  Changes(OrderByCreatedAt(SelectSeq(q, LAMBDA r : r.synced = 0 /\ r.retry_count < MaxRetry)))

\* ... WHERE table_name IN ('form_responses', 'form_field_responses') AND ...
PendingResponses(q) ==
  Changes(OrderByCreatedAt(SelectSeq(q, LAMBDA r :
      /\ r.table_name \in {"form_responses", "form_field_responses"}
      /\ r.synced = 0 /\ r.retry_count < MaxRetry)))

\* UPDATE sync_queue SET synced = 1, error = NULL WHERE id = ?
MarkSynced(q, id) ==
  [k \in 1..Len(q) |-> IF q[k].id = id THEN [q[k] EXCEPT !.synced = 1] ELSE q[k]]

\* UPDATE sync_queue SET retry_count = retry_count + 1, error = ? WHERE id = ?
MarkFailed(q, id) ==
  [k \in 1..Len(q) |-> IF q[k].id = id THEN [q[k] EXCEPT !.retry_count = @ + 1] ELSE q[k]]

\* the retry_count column of row id, NaN when the row is gone
RetryCount(q, id) ==
  IF \E k \in 1..Len(q) : q[k].id = id
    THEN q[CHOOSE k \in 1..Len(q) : q[k].id = id].retry_count
    ELSE NaN

\* DELETE FROM sync_queue WHERE (synced = 1 OR retry_count >= 3)
\*   AND created_at < datetime('now', '-7 days')
PurgeOld(q, now) ==
  SelectSeq(q, LAMBDA r :
      ~((r.synced = 1 \/ r.retry_count >= MaxRetry) /\ r.created_at < now - PurgeDays))

(***************************************************************************)
(* Remote collaborator (Supabase): per table a set of rows; a request      *)
(* names a table, a verb, and the columns/values it writes or filters on   *)
(***************************************************************************)
RemoteRow(key, fk, val, deleted) ==
  [key |-> key, fk |-> fk, val |-> val, deleted |-> deleted]

Request(t, verb, cols, vals, val) ==
  [table |-> t, verb |-> verb, cols |-> cols, vals |-> vals, val |-> val]

ColumnIndex(t, c) == CHOOSE i \in 1..Len(KeyColumns(t)) : KeyColumns(t)[i] = c

\* a filter or key column the table does not have makes the remote reject the request
KnownColumns(req) ==
  \A i \in 1..Len(req.cols) :
     \E j \in 1..Len(KeyColumns(req.table)) : KeyColumns(req.table)[j] = req.cols[i]

\* .eq(col, value) filters: the rows of the table that match all of them
Matching(rows, req) ==
  {r \in rows : \A i \in 1..Len(req.cols) :
                   r.key[ColumnIndex(req.table, req.cols[i])] = req.vals[i]}

\* the key a request's column values name, in the table's key order
RequestKey(req) ==
  [j \in 1..Len(KeyColumns(req.table)) |->
     IF \E i \in 1..Len(req.cols) : req.cols[i] = KeyColumns(req.table)[j]
       THEN req.vals[CHOOSE i \in 1..Len(req.cols) : req.cols[i] = KeyColumns(req.table)[j]]
       ELSE NaN]

\* effect of an accepted request on the remote rows of its table
RemoteApply(rows, req) ==
  CASE req.verb = "upsert" ->
         {r \in rows : r.key # RequestKey(req)}
           \cup {RemoteRow(RequestKey(req), <<>>, req.val,
                           \E r \in rows : r.key = RequestKey(req) /\ r.deleted)}
    [] req.verb = "delete" -> rows \ Matching(rows, req)
    [] req.verb = "update" ->
         (rows \ Matching(rows, req))
           \cup {[r EXCEPT !.deleted = TRUE] : r \in Matching(rows, req)}

(***************************************************************************)
(* sync.ts: processSyncQueue                                               *)
(***************************************************************************)
\* sync.ts:103
IsCompositeKeyTable(table_name) ==
  table_name \in {"user_roles", "user_companies", "form_companies"}

\* sync.ts:113-115: the DELETE filter built from record_id "id1,id2"
CompositeDeleteFilter(table_name, record_id) ==
  LET parts == split(record_id, ",")
      id1 == IF Len(parts) >= 1 THEN Number(parts[1]) ELSE NaN
      id2 == IF Len(parts) >= 2 THEN Number(parts[2]) ELSE NaN
      key1 == IF table_name = "user_roles" THEN "user_id" ELSE "user_id"
      key2 == IF table_name = "user_roles" THEN "role_id" ELSE "company_id"
  IN [cols |-> <<key1, key2>>, vals |-> <<id1, id2>>]

\* sync.ts:97-144: the request sent to the remote for one sync_queue row
Dispatch(change) ==
  IF IsCompositeKeyTable(change.table_name)
    THEN IF change.operation \in {"INSERT", "UPDATE"}
           THEN Request(change.table_name, "upsert",
                        change.data.cols, change.data.vals, change.data.val)
           ELSE LET f == CompositeDeleteFilter(change.table_name, change.record_id)
                IN Request(change.table_name, "delete", f.cols, f.vals, change.data.val)
    ELSE IF change.operation \in {"INSERT", "UPDATE"}
           THEN Request(change.table_name, "upsert",
                        <<"id">>, <<parseInt(change.record_id)>>, change.data.val)
           ELSE Request(change.table_name, "update",
                        <<"id">>, <<parseInt(change.record_id)>>, change.data.val)

PsqSlots == 1..MaxPsq
\* `outs`: for the rows this pass has handled so far, the remote's answer and the
\* retry_count the row had when the pass marked it
Idle == [pc |-> "idle", pending |-> <<>>, k |-> 0, ok |-> FALSE, outs |-> <<>>]

\* History of the requests the remote has received for one sync_queue row:
\*   fails  how many were rejected            late   one was sent after MaxRetry rejections
\*   acc    one was accepted                  stale  one was accepted after a request of a
\*                                                   later row of the same record was accepted
NoHistory(change) ==
  [qid |-> change.id, table_name |-> change.table_name, record_id |-> change.record_id,
   fails |-> 0, late |-> FALSE, acc |-> FALSE, stale |-> FALSE]

History(change) ==
  IF \E e \in wire : e.qid = change.id
    THEN CHOOSE e \in wire : e.qid = change.id
    ELSE NoHistory(change)

LaterAccepted(change) ==
  \E e \in wire : /\ e.acc
                  /\ e.qid > change.id
                  /\ e.table_name = change.table_name
                  /\ e.record_id = change.record_id

Received(change, ok) ==
  LET h == History(change)
  IN (wire \ {h}) \cup
       {[h EXCEPT !.late = @ \/ h.fails >= MaxRetry,
                  !.fails = IF ok THEN @ ELSE @ + 1,
                  !.acc = @ \/ ok,
                  !.stale = @ \/ (ok /\ LaterAccepted(change))]}

\* the remote accepts or rejects a request; one naming an unknown column is rejected
Outcomes(req) == IF KnownColumns(req) THEN BOOLEAN ELSE {FALSE}

RemoteAfter(req, ok) ==
  IF ok THEN [remote EXCEPT ![req.table] = RemoteApply(@, req)] ELSE remote

\* processSyncQueue called (sync.ts:73-76): returns at once when a sync is in progress
processSyncQueue(r) ==
  /\ psq[r].pc = "idle"
  /\ ~syncInProgress
  /\ psq' = [psq EXCEPT ![r].pc = "online"]
  /\ UNCHANGED <<formVars, flagVars, storeVars, netVars, dl, ufr, repo, appVars>>

\* after `await isOnline()` (sync.ts:77-88)
psqOnline(r) ==
  /\ psq[r].pc = "online"
  /\ \E online \in BOOLEAN :
       IF online /\ ~globalTransaction
         THEN /\ syncInProgress' = TRUE
              /\ psq' = [psq EXCEPT ![r].pc = "select"]
         ELSE /\ psq' = [psq EXCEPT ![r] = Idle]
              /\ UNCHANGED syncInProgress
  /\ UNCHANGED <<formVars, globalTransaction, syncTimeout, storeVars, netVars,
                 dl, ufr, repo, appVars>>

\* sync.ts:91-93: the pending rows of this pass
psqSelect(r) ==
  /\ psq[r].pc = "select"
  /\ LET pendingChanges == PendingChanges(db.q)
     IN psq' = [psq EXCEPT ![r] =
                  [pc |-> IF pendingChanges = <<>> THEN "cleanup" ELSE "send",
                   pending |-> pendingChanges, k |-> 1, ok |-> FALSE, outs |-> <<>>]]
  /\ UNCHANGED <<formVars, flagVars, storeVars, netVars, dl, ufr, repo, appVars>>

\* sync.ts:95-144: the remote request of the current row
psqSend(r) ==
  /\ psq[r].pc = "send"
  /\ LET change == psq[r].pending[psq[r].k]
         req == Dispatch(change)
     IN \E ok \in Outcomes(req) :
          /\ wire' = Received(change, ok)
          /\ remote' = RemoteAfter(req, ok)
          /\ psq' = [psq EXCEPT ![r].pc = "mark", ![r].ok = ok]
  /\ UNCHANGED <<formVars, flagVars, storeVars, dl, ufr, repo, appVars>>

\* sync.ts:146-164: mark the row synced, or count the failure; then the next row
psqMark(r) ==
  /\ psq[r].pc = "mark"
  /\ LET change == psq[r].pending[psq[r].k]
     IN /\ db' = [db EXCEPT !.q = IF psq[r].ok THEN MarkSynced(@, change.id)
                                               ELSE MarkFailed(@, change.id)]
        /\ psq' = [psq EXCEPT
                     ![r].pc = IF psq[r].k < Len(psq[r].pending) THEN "send" ELSE "cleanup",
                     ![r].k = @ + 1,
                     ![r].outs = Append(@, [ok |-> psq[r].ok,
                                            retry_count |-> RetryCount(db.q, change.id)])]
  /\ UNCHANGED <<formVars, flagVars, txSnap, clock, netVars, dl, ufr, repo, appVars>>

\* sync.ts:167-173: purge old rows, then the finally block
psqCleanup(r) ==
  /\ psq[r].pc = "cleanup"
  /\ db' = [db EXCEPT !.q = PurgeOld(@, clock)]
  /\ syncInProgress' = FALSE
  /\ psq' = [psq EXCEPT ![r] = Idle]
  /\ UNCHANGED <<formVars, globalTransaction, syncTimeout, txSnap, clock, netVars,
                 dl, ufr, repo, appVars>>

\* sync.ts:322-330
cleanupSync ==
  /\ syncTimeout' = NoTimer
  /\ syncInProgress' = FALSE
  /\ globalTransaction' = FALSE
  /\ UNCHANGED <<formVars, storeVars, netVars, procVars, appVars>>

(***************************************************************************)
(* formSync.ts: the syncOperation of uploadFormResponses                   *)
(***************************************************************************)
\* formSync.ts:212-228: only INSERT and UPDATE rows are sent
HasRequest(response) == response.operation \in {"INSERT", "UPDATE"}

ResponseRequest(response) ==
  Request(response.table_name, "upsert",
          <<"id">>, <<parseInt(response.record_id)>>, response.data.val)

\* formSync.ts:183
uploadFormResponses ==
  /\ ufr.pc = "idle"
  /\ ufr' = [ufr EXCEPT !.pc = "online"]
  /\ UNCHANGED <<formVars, flagVars, storeVars, netVars, dl, psq, repo, appVars>>

\* formSync.ts:184-201: after `await isOnline()`, the pending form responses
ufrSelect ==
  /\ ufr.pc = "online"
  /\ \E online \in BOOLEAN :
       IF online
         THEN LET pendingResponses == PendingResponses(db.q)
              IN ufr' = [pc |-> IF pendingResponses = <<>> THEN "cleanup" ELSE "send",
                         pending |-> pendingResponses, k |-> 1, ok |-> FALSE]
         ELSE ufr' = Idle
  /\ UNCHANGED <<formVars, flagVars, storeVars, netVars, dl, psq, repo, appVars>>

\* formSync.ts:203-228
ufrSend ==
  /\ ufr.pc = "send"
  /\ LET response == ufr.pending[ufr.k]
         req == ResponseRequest(response)
     IN IF HasRequest(response)
          THEN /\ \E ok \in Outcomes(req) :
                    /\ wire' = Received(response, ok)
                    /\ remote' = RemoteAfter(req, ok)
                    /\ ufr' = [ufr EXCEPT !.pc = "mark", !.ok = ok]
          ELSE /\ ufr' = [ufr EXCEPT !.pc = "mark", !.ok = TRUE]
               /\ UNCHANGED netVars
  /\ UNCHANGED <<formVars, flagVars, storeVars, dl, psq, repo, appVars>>

\* formSync.ts:230-243
ufrMark ==
  /\ ufr.pc = "mark"
  /\ LET response == ufr.pending[ufr.k]
     IN db' = [db EXCEPT !.q = IF ufr.ok THEN MarkSynced(@, response.id)
                                         ELSE MarkFailed(@, response.id)]
  /\ ufr' = [ufr EXCEPT !.pc = IF ufr.k < Len(ufr.pending) THEN "send" ELSE "cleanup",
                        !.k = @ + 1]
  /\ UNCHANGED <<formVars, flagVars, txSnap, clock, netVars, dl, psq, repo, appVars>>

\* formSync.ts:246-249
ufrCleanup ==
  /\ ufr.pc = "cleanup"
  /\ db' = [db EXCEPT !.q = PurgeOld(@, clock)]
  /\ ufr' = Idle
  /\ UNCHANGED <<formVars, flagVars, txSnap, clock, netVars, dl, psq, repo, appVars>>

(***************************************************************************)
(* sync.ts: addToSyncQueue and the debounce timer                          *)
(***************************************************************************)
Data(cols, vals, val) == [cols |-> cols, vals |-> vals, val |-> val]

\* sync.ts:58-69: arm the debounce timer when online and no sync is in progress
\* sync.ts:58-69: clearTimeout and setTimeout if online and no sync is in progress.
\* The timer handle is named after the sync_queue row whose enqueue started it.
ScheduleSync(online) ==
  syncTimeout' = IF online /\ ~syncInProgress THEN db.seq + 1 ELSE syncTimeout

\* sync.ts:44-70
addToSyncQueue(tableName, recordId, operation, data, by) ==
  /\ db' = QueueInsert(db, tableName, recordId, operation, data, by)
  /\ \E online \in BOOLEAN : ScheduleSync(online)

\* sync.ts:66-68: the timer fires and calls processSyncQueue
syncTimeoutFires(r) ==
  /\ syncTimeout # NoTimer
  /\ psq[r].pc = "idle"
  /\ syncTimeout' = NoTimer
  /\ psq' = IF syncInProgress THEN psq ELSE [psq EXCEPT ![r].pc = "online"]
  /\ UNCHANGED <<formVars, syncInProgress, globalTransaction, storeVars, netVars,
                 dl, ufr, repo, appVars>>

\* time passes: the purge age and a day
Tick ==
  /\ clock + PurgeDays + 1 <= MaxClock
  /\ clock' = clock + PurgeDays + 1
  /\ UNCHANGED <<formVars, flagVars, db, txSnap, netVars, procVars, appVars>>

(***************************************************************************)
(* Transactions on the shared connection.  BEGIN inside a transaction,     *)
(* and COMMIT or ROLLBACK outside one, are SQLite errors.                  *)
(***************************************************************************)
Begin == txSnap' = [open |-> TRUE, snap |-> db]
Commit == txSnap' = NoTx
Rollback == db' = txSnap.snap /\ txSnap' = NoTx

(***************************************************************************)
(* sync.ts: downloadUpdates.  Activation n is called once; `with` is the   *)
(* set of activations that were running at some moment of this one.        *)
(***************************************************************************)
DlSlots == 1..MaxDl
DlNew == [pc |-> "new", idx |-> 0, began |-> FALSE, res |-> "none", with |-> {}]

Running(n) == dl[n].pc \notin {"new", "done"}

DlReturn(n, res) == [dl[n] EXCEPT !.pc = "done", !.res = res, !.idx = 0]

\* sync.ts:177-178: called; returns at once when a sync is in progress
downloadUpdates(n) ==
  /\ dl[n].pc = "new"
  /\ \A m \in DlSlots : m < n => dl[m].pc # "new"
  /\ IF syncInProgress
       THEN dl' = [dl EXCEPT ![n] = DlReturn(n, "busy")]
       ELSE dl' = [m \in DlSlots |->
                     IF m = n THEN [dl[n] EXCEPT !.pc = "online",
                                                 !.with = {x \in DlSlots : Running(x)}]
                     ELSE IF Running(m) THEN [dl[m] EXCEPT !.with = @ \cup {n}]
                     ELSE dl[m]]
  /\ UNCHANGED <<formVars, flagVars, storeVars, netVars, psq, ufr, repo, appVars>>

\* downloadUpdates taking both flags before it looks at the probe's answer
dlOnlineFlagsFirst(n) ==
  /\ dl[n].pc = "online"
  /\ syncInProgress' = TRUE
  /\ globalTransaction' = TRUE
  /\ \E online \in BOOLEAN :
       dl' = IF online THEN [dl EXCEPT ![n].pc = "begin"]
                       ELSE [dl EXCEPT ![n] = DlReturn(n, "offline")]
  /\ UNCHANGED <<formVars, syncTimeout, storeVars, netVars, psq, ufr, repo, appVars>>

\* sync.ts:180-185: after `await isOnline()`, take both flags
dlOnline(n) ==
  /\ dl[n].pc = "online"
  /\ \E online \in BOOLEAN :
       IF online
         THEN /\ syncInProgress' = TRUE
              /\ globalTransaction' = TRUE
              /\ dl' = [dl EXCEPT ![n].pc = "begin"]
         ELSE /\ dl' = [dl EXCEPT ![n] = DlReturn(n, "offline")]
              /\ UNCHANGED <<syncInProgress, globalTransaction>>
  /\ UNCHANGED <<formVars, syncTimeout, storeVars, netVars, psq, ufr, repo, appVars>>

\* sync.ts:204: BEGIN TRANSACTION
dlBegin(n) ==
  /\ dl[n].pc = "begin"
  /\ IF InTx
       THEN /\ dl' = [dl EXCEPT ![n].pc = "rollback"]
            /\ UNCHANGED txSnap
       ELSE /\ Begin
            /\ dl' = [dl EXCEPT ![n].pc = "table", ![n].idx = 1, ![n].began = TRUE]
  /\ UNCHANGED <<formVars, flagVars, db, clock, netVars, psq, ufr, repo, appVars>>

\* the loop moves to the next table, or to COMMIT after the last one
NextTable(d) ==
  IF d.idx < Len(tables) THEN [d EXCEPT !.idx = @ + 1] ELSE [d EXCEPT !.pc = "commit"]

\* .select('*').is('deleted_at', null)
ActiveRows(t) == {r \in remote[t] : ~r.deleted}

\* the FOREIGN KEY clauses of initDatabase's CREATE TABLE statements: the parent
\* table and the place of the referencing column in a row of this model
References(t) ==
  CASE t = "user_roles"     -> {[parent |-> "users", in |-> "key", at |-> 1],
                                [parent |-> "roles", in |-> "key", at |-> 2]}
    [] t = "user_companies" -> {[parent |-> "users", in |-> "key", at |-> 1],
                                [parent |-> "companies", in |-> "key", at |-> 2]}
    [] t = "form_companies" -> {[parent |-> "forms", in |-> "key", at |-> 1],
                                [parent |-> "companies", in |-> "key", at |-> 2]}
    [] t = "form_fields"    -> {[parent |-> "forms", in |-> "fk", at |-> 1]}
    [] t = "visits"         -> {[parent |-> "users", in |-> "fk", at |-> 1]}
    [] t = "form_responses" -> {[parent |-> "users", in |-> "fk", at |-> 1]}
    [] t = "form_field_responses" -> {[parent |-> "form_responses", in |-> "fk", at |-> 1],
                                      [parent |-> "form_fields", in |-> "fk", at |-> 2]}
    [] OTHER                -> {}

\* the parent rows a row names: pairs <<table, id>>
ParentIds(t, r) ==
  { <<ref.parent, r[ref.in][ref.at]>> :
      ref \in {x \in References(t) : x.at <= Len(r[x.in])} }

\* PRAGMA foreign_keys = ON: the records whose INSERT fails, a parent being absent
Orphans(store, t, data) ==
  {r \in data : \E p \in ParentIds(t, r) :
                   \A x \in store.t[p[1]] : x.key # <<p[2]>>}

\* DELETE of rows of table t, with ON DELETE CASCADE down the referencing tables
RECURSIVE DeleteRows(_, _, _, _)
RECURSIVE CascadeFrom(_, _, _, _, _)
DeleteRows(store, t, rows, by) ==
  IF rows = {} THEN store
  ELSE CascadeFrom([store EXCEPT
                      !.t[t] = @ \ rows,
                      !.gone = @ \cup {[tbl |-> t, key |-> r.key, by |-> by] : r \in rows}],
                   t, {r.key : r \in rows}, by, 1)
CascadeFrom(store, t, keys, by, i) ==
  IF i > Len(tables) THEN store
  ELSE LET c == tables[i].name
           children == {r \in store.t[c] :
                          \E p \in ParentIds(c, r) : p[1] = t /\ <<p[2]>> \in keys}
       IN CascadeFrom(DeleteRows(store, c, children, by), t, keys, by, i + 1)

\* sync.ts:219-221: DELETE FROM table
ClearTable(store, t, by) == DeleteRows(store, t, store.t[t], by)

\* sync.ts:223-237: INSERT OR REPLACE of every fetched record
UpsertRecords(store, t, data, by) ==
  [store EXCEPT !.t[t] = {x \in @ : \A r \in data : r.key # x.key}
                           \cup {Row(r.key, r.fk, r.val, by) : r \in data}]

\* sync.ts:216-237: an empty result skips the table; else clear it if asked, and upsert
WriteTable(store, table, data, by) ==
  IF data = {} THEN store
  ELSE UpsertRecords(IF table.clearFirst THEN ClearTable(store, table.name, by) ELSE store,
                     table.name, data, by)

\* sync.ts:207-244: one table of the loop: fetch it, then write it.  A failing fetch
\* or a failing local statement aborts the download.
dlTable(n) ==
  /\ dl[n].pc = "table"
  /\ LET table == tables[dl[n].idx]
         data == ActiveRows(table.name)
     IN \E error \in {"none", "fetch", "write"} :
          CASE error = "none" ->
                 /\ Orphans(db, table.name, data) = {}
                 /\ db' = WriteTable(db, table, data, ByDl(n))
                 /\ dl' = [dl EXCEPT ![n] = NextTable(@)]
            [] error = "fetch" ->
                 /\ dl' = [dl EXCEPT ![n].pc = "rollback"]
                 /\ UNCHANGED db
            [] error = "write" ->
                 /\ data # {}
                 /\ db' = IF table.clearFirst THEN ClearTable(db, table.name, ByDl(n)) ELSE db
                 /\ dl' = [dl EXCEPT ![n].pc = "rollback"]
  /\ UNCHANGED <<formVars, flagVars, txSnap, clock, netVars, psq, ufr, repo, appVars>>

\* sync.ts:246: COMMIT
dlCommit(n) ==
  /\ dl[n].pc = "commit"
  /\ IF InTx
       THEN /\ Commit
            /\ dl' = [dl EXCEPT ![n].pc = "verify"]
       ELSE /\ dl' = [dl EXCEPT ![n].pc = "rollback"]
            /\ UNCHANGED txSnap
  /\ UNCHANGED <<formVars, flagVars, db, clock, netVars, psq, ufr, repo, appVars>>

\* sync.ts:249-254 and 265-268: count the rows, then the finally block
dlVerify(n) ==
  /\ dl[n].pc = "verify"
  /\ globalTransaction' = FALSE
  /\ syncInProgress' = FALSE
  /\ dl' = [dl EXCEPT ![n] = DlReturn(n, "ok")]
  /\ UNCHANGED <<formVars, syncTimeout, storeVars, netVars, psq, ufr, repo, appVars>>

\* sync.ts:256-268: ROLLBACK (its own error is swallowed), rethrow, finally
dlRollback(n) ==
  /\ dl[n].pc = "rollback"
  /\ IF InTx THEN Rollback ELSE UNCHANGED <<db, txSnap>>
  /\ globalTransaction' = FALSE
  /\ syncInProgress' = FALSE
  /\ dl' = [dl EXCEPT ![n] = DlReturn(n, "failed")]
  /\ UNCHANGED <<formVars, syncTimeout, clock, netVars, psq, ufr, repo, appVars>>

(***************************************************************************)
(* formSync.ts: the syncOperation of downloadForms                         *)
(***************************************************************************)
ByDf == <<"df", 1>>
FormTables == <<"forms", "form_fields", "form_companies">>
\* `began`: this call's BEGIN TRANSACTION has succeeded
DfIdle == [pc |-> "idle", data |-> <<>>, res |-> "none", began |-> FALSE]

DfReturn(res) == [DfIdle EXCEPT !.res = res]

\* formSync.ts:46-49
downloadForms ==
  /\ dfm.pc = "idle"
  /\ dfm' = [DfIdle EXCEPT !.pc = "online"]
  /\ UNCHANGED <<formVars, flagVars, storeVars, netVars, procVars, inp, out, idb, guard, session, initialSyncComplete>>

\* formSync.ts:50-54: after `await isOnline()`
dfOnline ==
  /\ dfm.pc = "online"
  /\ \E online \in BOOLEAN :
       dfm' = IF online THEN [dfm EXCEPT !.pc = "fetch"] ELSE DfReturn("offline")
  /\ UNCHANGED <<formVars, flagVars, storeVars, netVars, procVars, inp, out, idb, guard, session, initialSyncComplete>>

\* formSync.ts:60-87: the three tables are fetched before the transaction starts; a
\* failing fetch throws into the catch block
dfFetch ==
  /\ dfm.pc = "fetch"
  /\ \E error \in BOOLEAN :
       dfm' = IF error THEN [dfm EXCEPT !.pc = "rollback"]
              ELSE [dfm EXCEPT !.pc = "begin",
                               !.data = [i \in 1..Len(FormTables) |-> ActiveRows(FormTables[i])]]
  /\ UNCHANGED <<formVars, flagVars, storeVars, netVars, procVars, inp, out, idb, guard, session, initialSyncComplete>>

\* formSync.ts:90: BEGIN TRANSACTION
dfBegin ==
  /\ dfm.pc = "begin"
  /\ IF InTx THEN dfm' = [dfm EXCEPT !.pc = "rollback"] /\ UNCHANGED txSnap
             ELSE Begin /\ dfm' = [dfm EXCEPT !.pc = "write", !.began = TRUE]
  /\ UNCHANGED <<formVars, flagVars, db, clock, netVars, procVars, inp, out, idb, guard, session, initialSyncComplete>>

RECURSIVE UpsertForms(_, _, _)
UpsertForms(store, data, i) ==
  IF i > Len(FormTables) THEN store
  ELSE UpsertForms(UpsertRecords(store, FormTables[i], data[i], ByDf), data, i + 1)

\* formSync.ts:92-145: INSERT OR REPLACE of every fetched row; a failing statement
\* throws into the catch block
dfWrite ==
  /\ dfm.pc = "write"
  /\ \E error \in BOOLEAN :
       IF error THEN dfm' = [dfm EXCEPT !.pc = "rollback"] /\ UNCHANGED db
                ELSE /\ db' = UpsertForms(db, dfm.data, 1)
                     /\ dfm' = [dfm EXCEPT !.pc = "commit"]
  /\ UNCHANGED <<formVars, flagVars, txSnap, clock, netVars, procVars, inp, out, idb, guard, session, initialSyncComplete>>

\* formSync.ts:147-163: COMMIT, then the verification counts
dfCommit ==
  /\ dfm.pc = "commit"
  /\ IF InTx THEN Commit /\ dfm' = DfReturn("ok")
             ELSE dfm' = [dfm EXCEPT !.pc = "rollback"] /\ UNCHANGED txSnap
  /\ UNCHANGED <<formVars, flagVars, db, clock, netVars, procVars, inp, out, idb, guard, session, initialSyncComplete>>

\* formSync.ts:165-173: ROLLBACK (its own error is swallowed), rethrow
dfRollback ==
  /\ dfm.pc = "rollback"
  /\ IF InTx THEN Rollback ELSE UNCHANGED <<db, txSnap>>
  /\ dfm' = DfReturn("failed")
  /\ UNCHANGED <<formVars, flagVars, clock, netVars, procVars, inp, out, idb, guard, session, initialSyncComplete>>

(***************************************************************************)
(* companies.ts: initDatabase, called at startup by InitialLayout and by   *)
(* AuthProvider.initialize.  One row stands for the rows seeded per table. *)
(***************************************************************************)
Initializers == {"InitialLayout", "AuthProvider"}

\* companies.ts:304-367: the awaited INSERTs in program order; a junction
\* statement names the rows whose lastInsertRowId it uses
SeedProgram ==
  << [t |-> "roles", name |-> "usuario"],
     [t |-> "roles", name |-> "controlador"],
     [t |-> "users", name |-> "admin"],
     [t |-> "users", name |-> "usuario1"],
     [t |-> "user_roles", of |-> <<"usuario1", "usuario">>],
     [t |-> "users", name |-> "controlador1"],
     [t |-> "user_roles", of |-> <<"controlador1", "controlador">>],
     [t |-> "companies", name |-> "AWS"],
     [t |-> "user_companies", of |-> <<"usuario1", "AWS">>],
     [t |-> "companies", name |-> "Google Cloud"],
     [t |-> "user_companies", of |-> <<"usuario1", "Google Cloud">>],
     [t |-> "companies", name |-> "Azure"],
     [t |-> "user_companies", of |-> <<"usuario1", "Azure">>] >>

SeedNames == {SeedProgram[k].name : k \in {j \in DOMAIN SeedProgram :
                                              "name" \in DOMAIN SeedProgram[j]}}

IdbNew == [pc |-> "new", at |-> 1, ids |-> [n \in SeedNames |-> 0]]
IdbDone == [IdbNew EXCEPT !.pc = "done"]

\* companies.ts:128-298: the CREATE TABLE IF NOT EXISTS statements
initDatabase(i) ==
  /\ idb[i].pc = "new"
  /\ idb' = [idb EXCEPT ![i].pc = "probe"]
  /\ UNCHANGED <<formVars, flagVars, storeVars, netVars, procVars, inp, out, dfm,
                 guard, session, initialSyncComplete>>

\* companies.ts:301-302: SELECT COUNT(*) as count FROM users
idbProbe(i) ==
  /\ idb[i].pc = "probe"
  /\ idb' = [idb EXCEPT ![i].pc = IF db.t["users"] = {} THEN "seed" ELSE "done"]
  /\ UNCHANGED <<formVars, flagVars, storeVars, netVars, procVars, inp, out, dfm,
                 guard, session, initialSyncComplete>>

\* one awaited INSERT of the seeding; users.username is UNIQUE, roles.name and
\* companies.name are not (companies.ts:130-170); a failed statement throws
idbStep(i) ==
  /\ idb[i].pc = "seed"
  /\ LET st == SeedProgram[idb[i].at]
         id == lastInsertRowId(db, st.t)
         next == IF idb[i].at = Len(SeedProgram) THEN "done" ELSE "seed"
         insert(key, val) ==
           [db EXCEPT !.t[st.t] = @ \cup {Row(key, <<>>, val, Seed)}]
     IN IF "of" \in DOMAIN st
          THEN /\ db' = insert(<<idb[i].ids[st.of[1]], idb[i].ids[st.of[2]]>>, "seed")
               /\ idb' = [idb EXCEPT ![i].pc = next, ![i].at = @ + 1]
          ELSE IF st.t = "users" /\ \E u \in db.t["users"] : u.val = st.name
                 THEN idb' = [idb EXCEPT ![i].pc = "failed"] /\ UNCHANGED db
                 ELSE /\ db' = insert(<<id>>, st.name)
                      /\ idb' = [idb EXCEPT ![i].pc = next, ![i].at = @ + 1,
                                            ![i].ids[st.name] = id]
  /\ UNCHANGED <<formVars, flagVars, txSnap, clock, netVars, procVars, inp, out, dfm,
                 guard, session, initialSyncComplete>>

(***************************************************************************)
(* Repositories.  A repository function is the sequence of statements it   *)
(* awaits; each statement is one step.  In a key, 0 stands for the id the  *)
(* function keeps from its first INSERT (lastInsertRowId).                 *)
(***************************************************************************)
Stmt(s, t, key, fk, op, val, sep) ==
  [s |-> s, t |-> t, key |-> key, fk |-> fk, op |-> op, val |-> val, sep |-> sep]

BEGIN == Stmt("BEGIN", "", <<>>, <<>>, "", "", "")
COMMIT == Stmt("COMMIT", "", <<>>, <<>>, "", "", "")
THROW == Stmt("THROW", "", <<>>, <<>>, "", "", "")
\* INSERT with an AUTOINCREMENT id that the function keeps
InsertId(t, fk, val) == Stmt("INSERT_ID", t, <<>>, fk, "", val, "")
\* INSERT; the key is AUTOINCREMENT when empty
Insert(t, key, fk, val) == Stmt("INSERT", t, key, fk, "", val, "")
\* UPDATE t SET ... WHERE id = ?
Update(t, key, val) == Stmt("UPDATE", t, key, <<>>, "", val, "")
\* DELETE FROM t WHERE user_id = ?
DeleteOfUser(t, id) == Stmt("DELETE_USER", t, <<id>>, <<>>, "", "", "")
\* addToSyncQueue(t, recordId, operation, data); recordId joins the key with sep
Queue(t, key, sep, op, val) == Stmt("QUEUE", t, key, <<>>, op, val, sep)

RECURSIVE SeqOfSet(_)
SeqOfSet(S) == IF S = {} THEN <<>>
               ELSE LET x == CHOOSE y \in S : \A z \in S : y <= z
                    IN <<x>> \o SeqOfSet(S \ {x})

RECURSIVE Flatten(_)
Flatten(ss) == IF ss = <<>> THEN <<>> ELSE Head(ss) \o Flatten(Tail(ss))

\* roles.ts:15-43, companies.ts:28-57, users.ts:140-176
createRecord(t) ==
  <<BEGIN, InsertId(t, <<>>, "created"), COMMIT, Queue(t, <<0>>, "", "INSERT", "created")>>

\* roles.ts:45-69, companies.ts:59-84
updateRecord(t, id) ==
  <<BEGIN, Update(t, <<id>>, "updated"), COMMIT, Queue(t, <<id>>, "", "UPDATE", "updated")>>

\* roles.ts:71-94, companies.ts:86-109: soft delete
deleteRecord(t, id) ==
  <<BEGIN, Update(t, <<id>>, "deleted"), COMMIT, Queue(t, <<id>>, "", "DELETE", "deleted")>>

createUser == createRecord("users")
createCompany == createRecord("companies")
updateCompany(id) == updateRecord("companies", id)
deleteCompany(id) == deleteRecord("companies", id)
createRole == createRecord("roles")
updateRole(id) == updateRecord("roles", id)
deleteRole(id) == deleteRecord("roles", id)

\* deleted_at IS NOT NULL: the row has been soft deleted
Deleted(r) == r.val = "deleted"

\* users.ts:9-60 getUsers: users LEFT JOIN user_roles LEFT JOIN roles LEFT JOIN
\* user_companies LEFT JOIN companies WHERE u.deleted_at IS NULL GROUP BY u.id
getUsers(store) ==
  { [id |-> u.key[1],
     roles |-> {r.key[1] : r \in {x \in store.t["roles"] :
                   \E ur \in store.t["user_roles"] : ur.key = <<u.key[1], x.key[1]>>}},
     companies |-> {c.key[1] : c \in {x \in store.t["companies"] :
                   \E uc \in store.t["user_companies"] : uc.key = <<u.key[1], x.key[1]>>}}]
    : u \in {x \in store.t["users"] : ~Deleted(x)} }

\* SELECT role_id FROM user_roles WHERE user_id = ? (and the same for companies)
AssignedTo(store, t, id) == {r.key[2] : r \in {x \in store.t[t] : x.key[1] = id}}

\* users.ts:211-221: the two SELECTs of updateUser; what follows them depends on the
\* rows they return
SelectAssigned(id, changed, roleIds, companyIds) ==
  [s |-> "SELECT_ASSIGNED", t |-> "", key |-> <<id>>, fk |-> <<>>, op |-> "", val |-> "",
   sep |-> "", args |-> [changed |-> changed, roleIds |-> roleIds,
                         companyIds |-> companyIds]]

\* users.ts:178-221: updateUser up to its SELECTs
updateUser(id, changed, roleIds, companyIds) ==
  <<BEGIN, Update("users", <<id>>, "updated"),
    SelectAssigned(id, changed, roleIds, companyIds)>>

\* users.ts:223-312: updateUser after its SELECTs have read `store`
updateUserAssign(store, id, changed, roleIds, companyIds) ==
  LET currentRoleIds == AssignedTo(store, "user_roles", id)
      currentCompanyIds == AssignedTo(store, "user_companies", id)
      assign(t, x, current) ==
        <<Insert(t, <<id, x>>, <<>>, "created")>>
          \o IF x \in current THEN <<>> ELSE <<Queue(t, <<id, x>>, ",", "INSERT", "created")>>
      roles == SeqOfSet(roleIds)
      companies == SeqOfSet(companyIds)
      removedRoles == SeqOfSet(currentRoleIds \ roleIds)
      removedCompanies == SeqOfSet(currentCompanyIds \ companyIds)
  IN <<DeleteOfUser("user_roles", id)>>
       \o Flatten([k \in 1..Len(roles) |-> assign("user_roles", roles[k], currentRoleIds)])
       \o <<DeleteOfUser("user_companies", id)>>
       \o Flatten([k \in 1..Len(companies) |->
                     assign("user_companies", companies[k], currentCompanyIds)])
       \o <<COMMIT>>
       \o (IF changed THEN <<Queue("users", <<id>>, "", "UPDATE", "updated")>> ELSE <<>>)
       \o [k \in 1..Len(removedRoles) |->
             Queue("user_roles", <<id, removedRoles[k]>>, ",", "DELETE", "deleted")]
       \o [k \in 1..Len(removedCompanies) |->
             Queue("user_companies", <<id, removedCompanies[k]>>, ",", "DELETE", "deleted")]

\* users.ts:320-333: visits or form responses of the user that are not deleted
HasReferences(store, id) ==
  \E t \in {"visits", "form_responses"} :
     \E r \in store.t[t] : r.fk # <<>> /\ r.fk[1] = id /\ r.val # "deleted"

\* users.ts:314-358
deleteUser(store, id) ==
  IF HasReferences(store, id) THEN <<BEGIN, THROW>>
  ELSE <<BEGIN, DeleteOfUser("user_roles", id), DeleteOfUser("user_companies", id),
         Update("users", <<id>>, "deleted"), COMMIT,
         Queue("users", <<id>>, "", "DELETE", "deleted")>>

\* visits.ts:119-157
startVisit(userId) ==
  <<BEGIN, InsertId("visits", <<userId>>, "open"), COMMIT,
    Queue("visits", <<0>>, "", "INSERT", "open")>>

\* visits.ts:159-210
endVisit(store, visitId) ==
  IF \A r \in store.t["visits"] : r.key # <<visitId>> THEN <<BEGIN, THROW>>
  ELSE <<BEGIN, Update("visits", <<visitId>>, "ended"), COMMIT,
         Queue("visits", <<visitId>>, "", "UPDATE", "ended")>>

\* forms.ts:46-97
createForm(fields, companyIds) ==
  LET companies == SeqOfSet(companyIds)
  IN <<BEGIN, InsertId("forms", <<>>, "created")>>
       \o [k \in 1..fields |-> Insert("form_fields", <<>>, <<0>>, "created")]
       \o [k \in 1..Len(companies) |->
             Insert("form_companies", <<0, companies[k]>>, <<>>, "created")]
       \o <<COMMIT, Queue("forms", <<0>>, "", "INSERT", "created")>>

\* part_008:249-311 (database/forms.ts) and forms.ts:99-156 with a userId: the rows
\* of forms LEFT JOIN form_fields INNER JOIN form_companies restricted to the
\* user's companies, grouped by form; GROUP_CONCAT yields one field per joined row
getForms(store, userId) ==
  LET mine == AssignedTo(store, "user_companies", userId)
      joined(f) ==
        LET ffs == {x \in store.t["form_fields"] : x.fk = f.key}
            fcs == {x \in store.t["form_companies"] :
                      x.key[1] = f.key[1] /\ x.key[2] \in mine}
        IN (IF ffs = {} THEN {<<>>} ELSE {ff.key : ff \in ffs}) \X {fc.key : fc \in fcs}
  IN { [id |-> f.key[1],
        fields |-> Cardinality({j \in joined(f) : j[1] # <<>>})]
       : f \in {x \in store.t["forms"] : ~Deleted(x) /\ joined(x) # {}} }

\* supabase.from(t).insert({id, ...}) whose error is tested (part_008:63-74)
RemoteInsertId(t, key) == Stmt("REMOTE_INSERT_ID", t, key, <<>>, "", "created", "")
\* supabase.from(t).insert({...}) without id, its result ignored (part_008:77-87)
RemoteInsert(t, fk) == Stmt("REMOTE_INSERT", t, <<>>, fk, "", "created", "")
\* UPDATE sync_queue SET synced = 1 WHERE table_name IN (?, ?) AND record_id LIKE 'id%'
MarkLike(key) == Stmt("MARK_LIKE", "sync_queue", key, <<>>, "", "", "")

UploadStmts == {"REMOTE_INSERT_ID", "REMOTE_INSERT", "MARK_LIKE"}

\* part_008:8-97 (database/forms.ts): the local transaction, the enqueues, and the
\* immediate upload
createFormResponse(userId, fieldIds) ==
  LET fields == SeqOfSet(fieldIds)
  IN <<BEGIN, InsertId("form_responses", <<userId>>, "created")>>
       \o [k \in 1..Len(fields) |->
             Insert("form_field_responses", <<>>, <<0, fields[k]>>, "created")]
       \o <<COMMIT, Queue("form_responses", <<0>>, "", "INSERT", "created")>>
       \o [k \in 1..Len(fields) |->
             Queue("form_field_responses", <<0, fields[k]>>, "_", "INSERT", "created")]
       \o <<RemoteInsertId("form_responses", <<0>>)>>
       \o [k \in 1..Len(fields) |-> RemoteInsert("form_field_responses", <<0, fields[k]>>)]
       \o <<MarkLike(<<0>>)>>

(***************************************************************************)
(* The activation of a repository function                                 *)
(***************************************************************************)
\* the data object of an enqueue: a junction INSERT carries both key columns
Payload(t, key, op, val) ==
  IF IsCompositeKeyTable(t) /\ op = "INSERT" THEN Data(KeyColumns(t), key, val)
                                              ELSE Data(<<>>, <<>>, val)

RepoIdle == [pc |-> "idle", fn |-> "", prog |-> <<>>, ip |-> 0, id |-> 0, n |-> 0,
             res |-> "none"]

\* `${a},${b}`, `${a}_${b}`, or id.toString()
RECURSIVE Join(_, _)
Join(key, sep) ==
  IF Len(key) = 1 THEN toString(key[1])
  ELSE toString(key[1]) \o <<sep>> \o Join(Tail(key), sep)

\* a key with the kept id filled in
Resolve(key) == [k \in 1..Len(key) |-> IF key[k] = 0 THEN repo.id ELSE key[k]]

Call(fn, prog) ==
  /\ repo.pc \in {"idle", "done"}
  /\ repo.n < MaxCalls
  /\ repo' = [pc |-> "run", fn |-> fn, prog |-> prog, ip |-> 1, id |-> 0,
              n |-> repo.n + 1, res |-> "none"]
  /\ UNCHANGED <<formVars, flagVars, storeVars, netVars, dl, psq, ufr, appVars>>

RepoReturn(res) == [repo EXCEPT !.pc = "done", !.res = res, !.prog = <<>>, !.ip = 0]

Advance == IF repo.ip < Len(repo.prog) THEN [repo EXCEPT !.ip = @ + 1]
                                       ELSE RepoReturn("ok")

Caught == [repo EXCEPT !.pc = "catch"]

\* UPDATE ... WHERE id = ?
UpdateRow(rows, key, val, by) ==
  {IF r.key = key THEN Row(r.key, r.fk, val, by) ELSE r : r \in rows}

\* DELETE FROM t WHERE user_id = ?
DeleteRowsOfUser(store, t, id, by) ==
  [store EXCEPT !.t[t] = {r \in @ : r.key[1] # id},
                !.gone = @ \cup {[tbl |-> t, key |-> r.key, by |-> by] :
                                   r \in {x \in store.t[t] : x.key[1] = id}}]

\* one awaited statement of the running repository function
repoStep ==
  /\ repo.pc = "run"
  /\ repo.prog[repo.ip].s \notin UploadStmts
  /\ LET st == repo.prog[repo.ip]
         by == ByRepo(repo.n)
     IN CASE st.s = "BEGIN" ->
               IF InTx THEN repo' = Caught /\ UNCHANGED <<db, txSnap, syncTimeout>>
               ELSE Begin /\ repo' = Advance /\ UNCHANGED <<db, syncTimeout>>
          [] st.s = "COMMIT" ->
               IF InTx THEN Commit /\ repo' = Advance /\ UNCHANGED <<db, syncTimeout>>
               ELSE repo' = Caught /\ UNCHANGED <<db, txSnap, syncTimeout>>
          [] st.s = "THROW" ->
               repo' = Caught /\ UNCHANGED <<db, txSnap, syncTimeout>>
          [] st.s = "INSERT_ID" ->
               LET id == lastInsertRowId(db, st.t)
                   row == Row(<<id>>, st.fk, st.val, by)
               IN IF Orphans(db, st.t, {row}) # {}
                    THEN repo' = Caught /\ UNCHANGED <<db, txSnap, syncTimeout>>
                    ELSE /\ db' = [db EXCEPT !.t[st.t] = @ \cup {row}]
                         /\ repo' = [Advance EXCEPT !.id = id]
                         /\ UNCHANGED <<txSnap, syncTimeout>>
          [] st.s = "INSERT" ->
               LET key == IF st.key = <<>> THEN <<lastInsertRowId(db, st.t)>>
                          ELSE Resolve(st.key)
                   row == Row(key, Resolve(st.fk), st.val, by)
               IN IF (\E r \in db.t[st.t] : r.key = key) \/ Orphans(db, st.t, {row}) # {}
                    THEN repo' = Caught /\ UNCHANGED <<db, txSnap, syncTimeout>>
                    ELSE /\ db' = [db EXCEPT !.t[st.t] = @ \cup {row}]
                         /\ repo' = Advance
                         /\ UNCHANGED <<txSnap, syncTimeout>>
          [] st.s = "UPDATE" ->
               /\ db' = [db EXCEPT !.t[st.t] = UpdateRow(@, st.key, st.val, by)]
               /\ repo' = Advance
               /\ UNCHANGED <<txSnap, syncTimeout>>
          [] st.s = "SELECT_ASSIGNED" ->
               /\ repo' = [repo EXCEPT
                    !.prog = SubSeq(@, 1, repo.ip)
                               \o updateUserAssign(db, st.key[1], st.args.changed,
                                                   st.args.roleIds, st.args.companyIds),
                    !.ip = @ + 1]
               /\ UNCHANGED <<db, txSnap, syncTimeout>>
          [] st.s = "DELETE_USER" ->
               /\ db' = DeleteRowsOfUser(db, st.t, st.key[1], by)
               /\ repo' = Advance
               /\ UNCHANGED <<txSnap, syncTimeout>>
          [] st.s = "QUEUE" ->
               \E fails \in BOOLEAN :
                  IF fails THEN repo' = Caught /\ UNCHANGED <<db, txSnap, syncTimeout>>
                  ELSE /\ addToSyncQueue(st.t, Join(Resolve(st.key), st.sep), st.op,
                                         Payload(st.t, Resolve(st.key), st.op, st.val), by)
                       /\ repo' = Advance
                       /\ UNCHANGED txSnap
  /\ UNCHANGED <<formVars, syncInProgress, globalTransaction, clock, netVars,
                 dl, psq, ufr, appVars>>

\* record_id LIKE 'prefix%'
StartsWith(str, prefix) ==
  Len(str) >= Len(prefix) /\ SubSeq(str, 1, Len(prefix)) = prefix

\* part_008:90-93
MarkSyncedLike(q, prefix) ==
  [k \in 1..Len(q) |->
     IF /\ q[k].table_name \in {"form_responses", "form_field_responses"}
        /\ StartsWith(q[k].record_id, prefix)
       THEN [q[k] EXCEPT !.synced = 1] ELSE q[k]]

\* part_008:59-97: one await of createFormResponse's immediate upload.  A failed
\* insert of the response, or an exception, ends the attempt; the function returns
\* the response id all the same.
repoUpload ==
  /\ repo.pc = "run"
  /\ repo.prog[repo.ip].s \in UploadStmts
  /\ LET st == repo.prog[repo.ip]
         rows == remote[st.t]
     IN CASE st.s = "REMOTE_INSERT_ID" ->
               \E responseError \in BOOLEAN :
                  IF responseError \/ \E r \in rows : r.key = Resolve(st.key)
                    THEN repo' = RepoReturn("ok") /\ UNCHANGED <<db, remote>>
                    ELSE /\ remote' = [remote EXCEPT ![st.t] =
                                         @ \cup {RemoteRow(Resolve(st.key), <<>>, st.val, FALSE)}]
                         /\ repo' = Advance
                         /\ UNCHANGED db
          [] st.s = "REMOTE_INSERT" ->
               \E outcome \in {"ok", "error", "throw"} :
                  \/ /\ outcome = "ok"
                     /\ remote' = [remote EXCEPT ![st.t] =
                                     @ \cup {RemoteRow(<<MaxOf({r.key[1] : r \in rows}) + 1>>,
                                                       Resolve(st.fk), st.val, FALSE)}]
                     /\ repo' = Advance
                     /\ UNCHANGED db
                  \/ /\ outcome = "error"
                     /\ repo' = Advance
                     /\ UNCHANGED <<db, remote>>
                  \/ /\ outcome = "throw"
                     /\ repo' = RepoReturn("ok")
                     /\ UNCHANGED <<db, remote>>
          [] st.s = "MARK_LIKE" ->
               /\ db' = [db EXCEPT !.q = MarkSyncedLike(@, toString(repo.id))]
               /\ repo' = Advance
               /\ UNCHANGED remote
  /\ UNCHANGED <<formVars, flagVars, txSnap, clock, wire, dl, psq, ufr, appVars>>

\* catch: ROLLBACK, then throw (ROLLBACK outside a transaction throws as well)
repoCatch ==
  /\ repo.pc = "catch"
  /\ IF InTx THEN Rollback ELSE UNCHANGED <<db, txSnap>>
  /\ repo' = RepoReturn("error")
  /\ UNCHANGED <<formVars, flagVars, clock, netVars, dl, psq, ufr, appVars>>

(***************************************************************************)
(* Sync sessions.  A session is a component's sequence of awaited phases:  *)
(*   overlay    DataSyncOverlay.checkInitialSync / performSync (part_005)  *)
(*   auth       AuthProvider.performSync (SyncStatus.tsx:194-256)          *)
(*   pending    PendingSyncOverlay.handleSync                              *)
(*   button     SyncStatus.handleSync, Dashboard.handleSync (part_004)     *)
(*   initial    initializeSync's delayed sync (sync.ts:305-314)            *)
(* A phase is seen from the session: it returns or it throws.              *)
(***************************************************************************)
Components == {"overlay", "auth", "pending", "button", "initial"}

\* part_005:137 (module level), SyncStatus.tsx:147 and PendingSyncOverlay.tsx:17 (refs)
Guards == {"isSyncInProgress", "authSyncing", "pendingSyncing"}

GuardOf(c) ==
  CASE c = "overlay" -> "isSyncInProgress"
    [] c = "auth"    -> "authSyncing"
    [] c = "pending" -> "pendingSyncing"
    [] OTHER         -> "none"

Guarded(c) == GuardOf(c) \in Guards
Held(c) == Guarded(c) /\ guard[GuardOf(c)]
Take(c) == IF Guarded(c) THEN [guard EXCEPT ![GuardOf(c)] = TRUE] ELSE guard
Release(c) == IF Guarded(c) THEN [guard EXCEPT ![GuardOf(c)] = FALSE] ELSE guard

\* the phases a session awaits, in order
Phases(c) ==
  CASE c = "overlay" ->
         <<"processSyncQueue", "uploadFormResponses", "downloadUpdates", "downloadForms">>
    [] c = "auth" ->
         <<"downloadUpdates", "downloadForms", "processSyncQueue", "uploadFormResponses">>
    [] OTHER -> <<"processSyncQueue", "downloadUpdates">>

UploadPhases == {"processSyncQueue", "uploadFormResponses"}
DownloadPhases == {"downloadUpdates", "downloadForms"}

\* the status shown while phase k runs (setStatus / setSyncStatus / setSyncing)
StatusAt(c, k) ==
  IF c \in {"overlay", "auth"}
    THEN IF Phases(c)[k] \in UploadPhases THEN "uploading" ELSE "downloading"
    ELSE "syncing"

\* the status after the last phase
StatusAfter(c) == IF c \in {"overlay", "auth"} THEN "complete" ELSE "none"

\* the status after a phase threw: AuthProvider shows 'error' (SyncStatus.tsx:241-247);
\* DataSyncOverlay hides itself (part_005:249-252); the others only log
StatusThrown(c, status) ==
  CASE c = "auth" -> "error"
    [] c \in {"pending", "button"} -> "none"
    [] OTHER -> status

\* `early` is the set of awaited phases of the session that returned without doing
\* their work; `cancelled` is the ref isCancelled of DataSyncOverlay (part_005:144)
NoSession == [pc |-> "idle", k |-> 0, status |-> "none", done |-> <<>>, res |-> "none",
              early |-> {}, cancelled |-> FALSE]

Started(c) == [pc |-> "phase", k |-> 1, status |-> StatusAt(c, 1), done |-> <<>>,
               res |-> "none", early |-> {}, cancelled |-> FALSE]

\* sync.ts:74-85 and 178-181: processSyncQueue and downloadUpdates return undefined,
\* without throwing, when syncInProgress or globalTransaction is set or when their
\* own isOnline() probe fails
EarlyReturning == {"processSyncQueue", "downloadUpdates"}

\* what an awaited phase does: it runs, it returns early, or it throws
PhaseOutcomes(phase) ==
  IF phase \in EarlyReturning THEN {"ran", "early", "threw"} ELSE {"ran", "threw"}

Ended(c, status, res) == [session[c] EXCEPT !.pc = "idle", !.k = 0, !.status = status,
                                            !.res = res]

\* a sync is requested from component c
sessStart(c) ==
  /\ session[c].pc = "idle"
  /\ c = "initial" => session[c].res = "none"
  /\ CASE c = "overlay" ->
            \* part_005:220-237: checkInitialSync
            /\ session' = [session EXCEPT ![c] =
                 IF Held(c) THEN Ended(c, session[c].status, "dropped")
                 ELSE IF initialSyncComplete THEN Ended(c, session[c].status, "skipped")
                 ELSE [NoSession EXCEPT !.pc = "probe", !.status = "checking"]]
            /\ UNCHANGED guard
       [] c = "initial" ->
            \* sync.ts:275-279 and 304-307: initializeSync, once per app start
            /\ session' = [session EXCEPT ![c] =
                 IF initialSyncComplete THEN Ended(c, session[c].status, "skipped")
                 ELSE Started(c)]
            /\ UNCHANGED guard
       [] c = "auth" ->
            \* SyncStatus.tsx:196-197
            /\ session' = [session EXCEPT ![c] =
                 IF Held(c) THEN Ended(c, session[c].status, "dropped")
                 ELSE [NoSession EXCEPT !.pc = "probe", !.status = session[c].status]]
            /\ guard' = Take(c)
       [] OTHER ->
            \* PendingSyncOverlay.tsx:75-82, SyncStatus.tsx:27-32
            /\ session' = [session EXCEPT ![c] =
                 IF Held(c) THEN Ended(c, session[c].status, "dropped") ELSE Started(c)]
            /\ guard' = Take(c)
  /\ UNCHANGED <<formVars, flagVars, storeVars, netVars, procVars, inp, out, idb, dfm,
                 initialSyncComplete>>

\* after `await isOnline()` (part_005:238-247 and 170-181, SyncStatus.tsx:200-214)
sessProbe(c) ==
  /\ session[c].pc = "probe"
  /\ \E online \in BOOLEAN :
       CASE ~online ->
              /\ session' = [session EXCEPT ![c] =
                   Ended(c, IF c = "auth" THEN "error" ELSE "offline", "offline")]
              /\ guard' = IF c = "auth" THEN Release(c) ELSE guard
         [] online /\ c = "overlay" /\ session[c].cancelled ->
              \* part_005:245: `if (!isCancelled.current)`
              /\ session' = [session EXCEPT ![c] = Ended(c, session[c].status, "cancelled")]
              /\ UNCHANGED guard
         [] online /\ c = "overlay" /\ ~session[c].cancelled /\ Held(c) ->
              /\ session' = [session EXCEPT ![c] = Ended(c, session[c].status, "dropped")]
              /\ UNCHANGED guard
         [] OTHER ->
              /\ session' = [session EXCEPT ![c] = Started(c)]
              /\ guard' = Take(c)
  /\ UNCHANGED <<formVars, flagVars, storeVars, netVars, procVars, inp, out, idb, dfm,
                 initialSyncComplete>>

\* the awaited phase returns or throws; after the last phase, or a throw, the finally
\* block releases the guard
sessPhase(c) ==
  /\ session[c].pc = "phase"
  /\ \E outcome \in PhaseOutcomes(Phases(c)[session[c].k]) :
       LET k == session[c].k
           threw == outcome = "threw"
           done == Append(session[c].done, Phases(c)[k])
           early == IF outcome = "early" THEN session[c].early \cup {Phases(c)[k]}
                                         ELSE session[c].early
       IN CASE threw ->
                 /\ session' = [session EXCEPT ![c] =
                                  Ended(c, StatusThrown(c, session[c].status), "threw")]
                 /\ guard' = Release(c)
                 /\ UNCHANGED initialSyncComplete
            [] ~threw /\ k < Len(Phases(c)) ->
                 /\ session' = [session EXCEPT ![c].k = k + 1, ![c].done = done,
                                               ![c].early = early,
                                               ![c].status = StatusAt(c, k + 1)]
                 /\ UNCHANGED <<guard, initialSyncComplete>>
            [] ~threw /\ session[c].cancelled ->
                 \* part_005:202: `if (!isCancelled.current)` skips the completion
                 /\ session' = [session EXCEPT ![c] =
                                  [Ended(c, session[c].status, "cancelled")
                                     EXCEPT !.done = done, !.early = early]]
                 /\ guard' = Release(c)
                 /\ UNCHANGED initialSyncComplete
            [] OTHER ->
                 \* part_005:203-205 and sync.ts:309: the persisted flag is set
                 /\ session' = [session EXCEPT ![c] =
                                  [Ended(c, StatusAfter(c), "complete")
                                     EXCEPT !.done = done, !.early = early]]
                 /\ guard' = Release(c)
                 /\ initialSyncComplete' =
                      (initialSyncComplete \/ c \in {"overlay", "initial"})
  /\ UNCHANGED <<formVars, flagVars, storeVars, netVars, procVars, inp, out, idb, dfm>>

\* part_005:255-258: the overlay's cancel button, while its session runs
handleCancel ==
  /\ session["overlay"].pc \in {"probe", "phase"}
  /\ ~session["overlay"].cancelled
  /\ session' = [session EXCEPT !["overlay"].cancelled = TRUE]
  /\ UNCHANGED <<formVars, flagVars, storeVars, netVars, procVars, inp, out, idb, dfm,
                 guard, initialSyncComplete>>

\* SyncStatus.tsx:288-297: cleanupSync(), and the auth guard is released while the
\* session it guards goes on
handleCancelSync ==
  /\ syncTimeout' = NoTimer
  /\ syncInProgress' = FALSE
  /\ globalTransaction' = FALSE
  /\ guard' = Release("auth")
  /\ UNCHANGED <<formVars, storeVars, netVars, procVars, inp, out, idb, dfm, session, initialSyncComplete>>

\* auth.ts:73-75 and 92-96: `await AsyncStorage.clear()`, in login before the user
\* is stored and in logout
AsyncStorageClear ==
  /\ initialSyncComplete' = FALSE
  /\ UNCHANGED <<formVars, flagVars, storeVars, netVars, procVars, inp, out, idb, dfm,
                 guard, session>>

\* the app is started again: module state and component state are new, the local
\* store and AsyncStorage are kept
appStart ==
  /\ session' = [c \in Components |-> NoSession]
  /\ guard' = [g \in Guards |-> FALSE]
  /\ syncInProgress' = FALSE
  /\ globalTransaction' = FALSE
  /\ syncTimeout' = NoTimer
  /\ UNCHANGED <<formVars, storeVars, netVars, procVars, inp, out, idb, dfm,
                 initialSyncComplete>>

(***************************************************************************)
(* Initial states                                                          *)
(***************************************************************************)
NoOutput == <<>>

NoInput == [table_name |-> "", key |-> <<>>, record_id |-> <<>>]

\* the store after initDatabase's seeding (one row per seeded table)
SeedStore ==
  [EmptyStore EXCEPT
     !.t = [t \in TableNames |->
              CASE t \in {"users", "companies", "roles"} -> {Row(<<1>>, <<>>, "seed", Seed)}
                [] t \in {"user_roles", "user_companies"} ->
                     {Row(<<1, 1>>, <<>>, "seed", Seed)}
                [] OTHER -> {}]]

\* the remote holds one active row per table
RemoteStore ==
  [t \in TableNames |->
     IF IsCompositeKeyTable(t) THEN {RemoteRow(<<1, 1>>, <<>>, "remote", FALSE)}
                               ELSE {RemoteRow(<<1>>, <<>>, "remote", FALSE)}]

FormInit ==
  /\ isFormSyncInProgress = FALSE
  /\ formSyncQueue = <<>>
  /\ formOp = [o \in FormOps |-> "new"]
  /\ execWaiting = {}

FlagInit ==
  /\ syncInProgress = FALSE
  /\ globalTransaction = FALSE
  /\ syncTimeout = NoTimer

StoreInit ==
  /\ db = SeedStore
  /\ txSnap = NoTx
  /\ clock = 0

NetInit ==
  /\ remote = RemoteStore
  /\ wire = {}

ProcInit ==
  /\ dl = [n \in DlSlots |-> DlNew]
  /\ psq = [r \in PsqSlots |-> Idle]
  /\ ufr = Idle
  /\ repo = RepoIdle

AppInit ==
  /\ inp = NoInput
  /\ dfm = DfIdle
  /\ guard = [g \in Guards |-> FALSE]
  /\ session = [c \in Components |-> NoSession]
  /\ initialSyncComplete = FALSE
  /\ out = NoOutput
  /\ idb = [i \in Initializers |-> IdbDone]

Init == FormInit /\ FlagInit /\ StoreInit /\ NetInit /\ ProcInit /\ AppInit

(***************************************************************************)
(* Specification of the form sync queue (formSync.ts:8-43)                 *)
(***************************************************************************)
NextForm ==
  \E o \in FormOps : queueFormSync(o) \/ wrappedOperation(o) \/ executeNextResume(o)

SpecForm == Init /\ [][NextForm]_vars

\* every operation that starts also finishes; a resumed activation of
\* executeNextInQueue runs as a microtask
FormFairness ==
  \A o \in FormOps : WF_vars(wrappedOperation(o)) /\ WF_vars(executeNextResume(o))

SpecFormFair == SpecForm /\ FormFairness

(***************************************************************************)
(* Specifications of the upload engines: changes are enqueued, and         *)
(* processSyncQueue, uploadFormResponses and cleanupSync run interleaved   *)
(***************************************************************************)
Input(table_name, record_id, operation, val) ==
  [table_name |-> table_name, record_id |-> record_id, operation |-> operation,
   data |-> Data(<<>>, <<>>, val)]

\* the rows createCompany and updateCompany enqueue (companies.ts:44, 74)
UpInputs ==
  { Input("companies", toString(1), "INSERT", "created"),
    Input("companies", toString(1), "UPDATE", "updated") }

\* the rows createFormResponse enqueues (part_008:47-57)
ResponseInputs ==
  { Input("form_responses", toString(1), "INSERT", "created"),
    Input("form_field_responses", Join(<<1, 1>>, "_"), "INSERT", "created") }

\* a repository enqueues one change
Enqueue(inputs) ==
  /\ db.seq < MaxQueue
  /\ \E c \in inputs :
       addToSyncQueue(c.table_name, c.record_id, c.operation, c.data, ByRepo(db.seq + 1))
  /\ UNCHANGED <<formVars, syncInProgress, globalTransaction, txSnap, clock, netVars,
                 procVars, appVars>>

Upload(r) ==
  \/ processSyncQueue(r) \/ syncTimeoutFires(r)
  \/ psqOnline(r) \/ psqSelect(r) \/ psqSend(r) \/ psqMark(r) \/ psqCleanup(r)

\* both upload engines interleaved, within the purge age
NextUp ==
  \/ Enqueue(ResponseInputs)
  \/ \E r \in PsqSlots : Upload(r)
  \/ uploadFormResponses \/ ufrSelect \/ ufrSend \/ ufrMark \/ ufrCleanup

SpecUp == Init /\ [][NextUp]_vars

\* one pass of processSyncQueue after the other, over a time span longer than the
\* purge age
NextDrain ==
  \/ Enqueue(UpInputs)
  \/ cleanupSync
  \/ Upload(1)
  \/ Tick

SpecDrain == Init /\ [][NextDrain]_vars

(***************************************************************************)
(* Specification of the repositories: calls run one after the other; an    *)
(* enqueue may fail                                                        *)
(***************************************************************************)
Ids == 1..MaxId

RepoCall ==
  \/ Call("createUser", createUser)
  \/ Call("createCompany", createCompany)
  \/ Call("createRole", createRole)
  \/ \E id \in Ids : Call("updateCompany", updateCompany(id))
  \/ \E id \in Ids : Call("deleteCompany", deleteCompany(id))
  \/ \E id \in Ids : Call("updateRole", updateRole(id))
  \/ \E id \in Ids : Call("deleteRole", deleteRole(id))
  \/ \E id \in Ids, changed \in BOOLEAN, roleIds \in SUBSET Ids, companyIds \in SUBSET Ids :
       Call("updateUser", updateUser(id, changed, roleIds, companyIds))
  \/ \E id \in Ids : Call("deleteUser", deleteUser(db, id))
  \/ \E userId \in Ids : Call("startVisit", startVisit(userId))
  \/ \E visitId \in Ids : Call("endVisit", endVisit(db, visitId))
  \/ \E fields \in 0..MaxId, companyIds \in SUBSET Ids :
       Call("createForm", createForm(fields, companyIds))
  \/ \E userId \in Ids, fieldIds \in SUBSET Ids :
       Call("createFormResponse", createFormResponse(userId, fieldIds))

NextRepo == RepoCall \/ repoStep \/ repoUpload \/ repoCatch

SpecRepo == Init /\ [][NextRepo]_vars

(***************************************************************************)
(* Specification of the dispatch of junction-table deletes: the outbox     *)
(* holds one DELETE row with record_id "a,b", and processSyncQueue runs    *)
(***************************************************************************)
JunctionTables == {"user_roles", "user_companies", "form_companies"}

DispatchInputs ==
  { [table_name |-> t, key |-> <<a, b>>, record_id |-> Join(<<a, b>>, ",")] :
      t \in JunctionTables, a \in 1..MaxKey, b \in 1..MaxKey }

\* the remote rows of the junction table: the one the identity names and its neighbours
JunctionRows(key) ==
  { RemoteRow(k, <<>>, "remote", FALSE) :
      k \in {key, <<key[1], (key[2] % MaxKey) + 1>>, <<(key[1] % MaxKey) + 1, key[2]>>} }

InitDispatch ==
  /\ FormInit
  /\ syncInProgress = FALSE
  /\ globalTransaction = FALSE
  /\ syncTimeout \in {NoTimer, 1}
  /\ clock = 0
  /\ txSnap = NoTx
  /\ inp \in DispatchInputs
  /\ dfm = DfIdle
  /\ guard = [g \in Guards |-> FALSE]
  /\ session = [c \in Components |-> NoSession]
  /\ initialSyncComplete = FALSE
  /\ out = NoOutput
  /\ idb = [i \in Initializers |-> IdbDone]
  /\ db = QueueInsert(SeedStore, inp.table_name, inp.record_id, "DELETE",
                      Data(<<>>, <<>>, "deleted"), ByRepo(1))
  /\ remote = [RemoteStore EXCEPT ![inp.table_name] = JunctionRows(inp.key)]
  /\ wire = {}
  /\ ProcInit

NextDispatch == \E r \in PsqSlots : Upload(r)

SpecDispatch == InitDispatch /\ [][NextDispatch]_vars

(***************************************************************************)
(* Specifications of the download engine                                   *)
(***************************************************************************)
Download(n) ==
  \/ downloadUpdates(n) \/ dlOnline(n) \/ dlBegin(n) \/ dlTable(n)
  \/ dlCommit(n) \/ dlVerify(n) \/ dlRollback(n)

\* downloadUpdates is called MaxDl times; the sync overlay may be cancelled
NextDownload ==
  \/ \E n \in DlSlots : Download(n)
  \/ cleanupSync

SpecDownload == Init /\ [][NextDownload]_vars

\* a download, and the user starting visits while it runs
NextTx ==
  \/ Download(1)
  \/ Call("startVisit", startVisit(1))
  \/ repoStep
  \/ repoCatch

SpecTx == Init /\ [][NextTx]_vars

(***************************************************************************)
(* Specification of the sync orchestration: a download, processSyncQueue   *)
(* and cleanupSync interleaved at their suspension points, while changes   *)
(* are enqueued                                                            *)
(***************************************************************************)
\* updateCompany's enqueue (companies.ts:77)
SyncInputs == { Input("companies", toString(1), "UPDATE", "updated") }

Next ==
  \/ Download(1)
  \/ \E r \in PsqSlots : Upload(r)
  \/ cleanupSync
  \/ Enqueue(SyncInputs)

Spec == Init /\ [][Next]_vars

(***************************************************************************)
(* Specification of the sync sessions of the components                    *)
(***************************************************************************)
\* the sessions of all components, whose phases do their work or throw
NextSession ==
  \/ \E c \in Components :
       sessStart(c) \/ sessProbe(c) \/ (sessPhase(c) /\ session'[c].early = {})
  \/ handleCancelSync
  \/ AsyncStorageClear \/ appStart

SpecSession == Init /\ [][NextSession]_vars

\* the sessions that report a completion (the overlay's, the post-login one and
\* initializeSync's), whose phases may also return early; the overlay may be cancelled
Reporting == {"overlay", "auth", "initial"}

NextReport ==
  \/ \E c \in Reporting : sessStart(c) \/ sessProbe(c) \/ sessPhase(c)
  \/ handleCancel
  \/ handleCancelSync
  \/ AsyncStorageClear \/ appStart

SpecReport == Init /\ [][NextReport]_vars

(***************************************************************************)
(* Specification of one download against any remote state                  *)
(***************************************************************************)
\* the tables that downloadUpdates clears before it writes them
ReplaceTables == {tables[i].name : i \in {j \in 1..Len(tables) : tables[j].clearFirst}}

\* what the remote may hold of a replaced table: nothing, an active row, a deleted
\* row, or both
RemoteContents ==
  { {},
    {RemoteRow(<<1>>, <<>>, "remote", FALSE)},
    {RemoteRow(<<1>>, <<>>, "remote", TRUE)},
    {RemoteRow(<<2>>, <<>>, "remote", FALSE), RemoteRow(<<1>>, <<>>, "remote", TRUE)} }

InitReplace ==
  /\ FormInit /\ FlagInit /\ StoreInit /\ ProcInit /\ AppInit
  /\ wire = {}
  /\ \E contents \in [ReplaceTables -> RemoteContents] :
       remote = [t \in TableNames |->
                   IF t \in ReplaceTables THEN contents[t] ELSE RemoteStore[t]]

NextReplace == Download(1)

SpecReplace == InitReplace /\ [][NextReplace]_vars

(***************************************************************************)
(* Specification of the automatic upload: enqueues, the debounce timer and *)
(* the upload passes it starts; nobody asks for a sync by hand             *)
(***************************************************************************)
AutoUpload == psqOnline(1) \/ psqSelect(1) \/ psqSend(1) \/ psqMark(1) \/ psqCleanup(1)

NextAuto ==
  \/ Enqueue(UpInputs)
  \/ syncTimeoutFires(1)
  \/ AutoUpload

\* a pending timer fires, and an upload pass that has started goes on
AutoFairness == WF_vars(syncTimeoutFires(1)) /\ WF_vars(AutoUpload)

SpecAuto == Init /\ [][NextAuto]_vars /\ AutoFairness

(***************************************************************************)
(* Specification of the four network operations, each behind its           *)
(* connectivity probe                                                      *)
(***************************************************************************)
UploadResponses == uploadFormResponses \/ ufrSelect \/ ufrSend \/ ufrMark \/ ufrCleanup

DownloadForms ==
  \/ downloadForms \/ dfOnline \/ dfFetch \/ dfBegin \/ dfWrite \/ dfCommit \/ dfRollback

ProbeInputs == { Input("form_responses", toString(1), "INSERT", "created") }

\* the operations are awaited one after the other, as a sync session does,
\* while the user goes on writing
Quiet(others) == \A o \in others :
  CASE o = "processSyncQueue"    -> \A r \in PsqSlots : psq[r].pc = "idle"
    [] o = "uploadFormResponses" -> ufr.pc = "idle"
    [] o = "downloadUpdates"     -> \A n \in DlSlots : ~Running(n)
    [] o = "downloadForms"       -> dfm.pc = "idle"

NextProbe ==
  \/ Enqueue(ProbeInputs)
  \/ Quiet({"uploadFormResponses", "downloadUpdates", "downloadForms"}) /\ Upload(1)
  \/ Quiet({"processSyncQueue", "downloadUpdates", "downloadForms"}) /\ UploadResponses
  \/ Quiet({"processSyncQueue", "uploadFormResponses", "downloadForms"}) /\ Download(1)
  \/ Quiet({"processSyncQueue", "uploadFormResponses", "downloadUpdates"}) /\ DownloadForms

SpecProbe == Init /\ [][NextProbe]_vars

(***************************************************************************)
(* Specification of form responses: a form with two fields exists, the     *)
(* remote holds no response yet; responses are created and uploaded by     *)
(* the immediate upload and by both upload engines                         *)
(***************************************************************************)
InitKeys ==
  /\ FormInit /\ FlagInit /\ ProcInit /\ AppInit
  /\ db = [SeedStore EXCEPT
             !.t["forms"] = {Row(<<1>>, <<>>, "seed", Seed)},
             !.t["form_fields"] = {Row(<<f>>, <<1>>, "seed", Seed) : f \in Ids}]
  /\ txSnap = NoTx
  /\ clock = 0
  /\ remote = [RemoteStore EXCEPT !["form_responses"] = {},
                                  !["form_field_responses"] = {}]
  /\ wire = {}

\* one response is created while the two upload engines take turns
NextKeys ==
  \/ /\ repo.n = 0
     /\ \E fieldIds \in SUBSET Ids :
          Call("createFormResponse", createFormResponse(1, fieldIds))
  \/ repoStep
  \/ repoUpload
  \/ repoCatch
  \/ Quiet({"uploadFormResponses"}) /\ Upload(1)
  \/ Quiet({"processSyncQueue"}) /\ UploadResponses

SpecKeys == InitKeys /\ [][NextKeys]_vars

(***************************************************************************)
(* Specification of the operations that open a transaction on the shared   *)
(* connection: a download, a form download and the user starting visits    *)
(***************************************************************************)
\* downloadForms is called once
NextOneTx ==
  \/ Download(1)
  \/ dfm.res = "none" /\ DownloadForms
  \/ Call("startVisit", startVisit(1))
  \/ repoStep
  \/ repoCatch

SpecOneTx == Init /\ [][NextOneTx]_vars

(***************************************************************************)
(* Specification of a cancelled sync: a download, the user cancelling, and *)
(* a sync asked for again once the first download is past its guard        *)
(***************************************************************************)
NextCancel ==
  \/ Download(1)
  \/ cleanupSync
  \/ dl[1].pc \notin {"new", "online"} /\ Download(2)

SpecCancel == Init /\ [][NextCancel]_vars

(***************************************************************************)
(* Specification of a user being deleted while visits are started and a    *)
(* download runs                                                           *)
(***************************************************************************)
NextReject ==
  \/ NextTx
  \/ Call("deleteUser", deleteUser(db, 1))

SpecReject == Init /\ [][NextReject]_vars

(***************************************************************************)
(* Specification of local edits followed by a download: a company is       *)
(* created or edited while downloadUpdates runs or before it               *)
(***************************************************************************)
NextLocal ==
  \/ Call("createCompany", createCompany)
  \/ Call("updateCompany", updateCompany(1))
  \/ repoStep
  \/ repoCatch
  \/ Download(1)

SpecLocal == Init /\ [][NextLocal]_vars

(***************************************************************************)
(* Specification of the forms a user sees: the seeding has stored a second *)
(* company; the user's companies are edited and forms are created          *)
(***************************************************************************)
InitForms ==
  /\ FormInit /\ FlagInit /\ NetInit /\ ProcInit /\ AppInit
  /\ db = [SeedStore EXCEPT !.t["companies"] = @ \cup {Row(<<2>>, <<>>, "seed", Seed)}]
  /\ txSnap = NoTx
  /\ clock = 0

NextForms ==
  \/ \E companyIds \in SUBSET Ids : Call("updateUser", updateUser(1, FALSE, {1}, companyIds))
  \/ \E fields \in 0..MaxId, companyIds \in SUBSET Ids :
       Call("createForm", createForm(fields, companyIds))
  \/ repoStep
  \/ repoCatch

SpecForms == InitForms /\ [][NextForms]_vars

(***************************************************************************)
(* Specifications of updateUser's junction rows: user 1 holds the roles R  *)
(* and the companies C and is updated to roleIds and companyIds, alone and *)
(* while downloads run                                                     *)
(***************************************************************************)
JunctionInputs ==
  [R : SUBSET Ids, C : SUBSET Ids, roleIds : SUBSET Ids, companyIds : SUBSET Ids]

\* the store in which user 1 holds the roles R and the companies C
AssignedStore(R, C) ==
  [SeedStore EXCEPT
     !.t["roles"] = {Row(<<x>>, <<>>, "seed", Seed) : x \in Ids},
     !.t["companies"] = {Row(<<x>>, <<>>, "seed", Seed) : x \in Ids},
     !.t["user_roles"] = {Row(<<1, x>>, <<>>, "seed", Seed) : x \in R},
     !.t["user_companies"] = {Row(<<1, x>>, <<>>, "seed", Seed) : x \in C}]

InitJunction ==
  /\ FormInit /\ FlagInit /\ NetInit /\ ProcInit
  /\ inp \in JunctionInputs
  /\ dfm = DfIdle
  /\ guard = [g \in Guards |-> FALSE]
  /\ session = [c \in Components |-> NoSession]
  /\ initialSyncComplete = FALSE
  /\ out = NoOutput
  /\ idb = [i \in Initializers |-> IdbDone]
  /\ db = AssignedStore(inp.R, inp.C)
  /\ txSnap = NoTx
  /\ clock = 0

\* one call of updateUser
UpdateUserCall ==
  /\ repo.n = 0
  /\ \E changed \in BOOLEAN :
       Call("updateUser", updateUser(1, changed, inp.roleIds, inp.companyIds))

NextJunction == UpdateUserCall \/ repoStep \/ repoCatch

SpecJunction == InitJunction /\ [][NextJunction]_vars

\* the call that changes the roles of a user who holds role 1 and company 1, while
\* downloadUpdates is called, and called again after it has failed
InitJunctionSync ==
  /\ InitJunction
  /\ inp.R = {1} /\ inp.C = {1} /\ inp.companyIds = {1}

NextJunctionSync ==
  \/ UpdateUserCall \/ repoStep \/ repoCatch
  \/ Download(1)
  \/ dl[1].res = "failed" /\ Download(2)

SpecJunctionSync == InitJunctionSync /\ [][NextJunctionSync]_vars

(***************************************************************************)
(* Specification of the duration endVisit stores: instants in milliseconds *)
(* since the epoch, SQLite's CURRENT_TIMESTAMP text as its UTC seconds     *)
(***************************************************************************)
\* 'YYYY-MM-DD HH:MM:SS' in UTC (visits.ts:133)
CURRENT_TIMESTAMP(now) == now \div 1000

Engines == {"local", "invalid"}

\* new Date(text) of a date-time text without 'T' and without zone: outside the
\* format ECMAScript fixes, so the engine either reads it as local wall-clock
\* time (tz = seconds the zone is ahead of UTC) or yields Invalid Date
DateParse(text, engine, tz) ==
  IF engine = "invalid" THEN [ok |-> FALSE, ms |-> 0]
  ELSE [ok |-> TRUE, ms |-> (text - tz) * 1000]

\* visits.ts:178-180; a NaN duration is bound as NULL
VisitDuration(start_time, endTime, engine, tz) ==
  LET startTime == DateParse(start_time, engine, tz)
  IN IF startTime.ok THEN [ok |-> TRUE, s |-> (endTime - startTime.ms) \div 1000]
     ELSE [ok |-> FALSE, s |-> 0]

VisitInputs ==
  { [start |-> st, elapsed |-> e, tz |-> tz, engine |-> en] :
      st \in {0, 900, 59500}, e \in {200, 1000, 125000, 125900},
      tz \in {0 - 10800, 0, 3600}, en \in Engines }

\* visits.ts:159-210 on the visit startVisit stored at inp.start, called
\* inp.elapsed later: the stored columns and the enqueued payload
endVisitAt ==
  /\ out.pc = "open"
  /\ LET endTime == inp.start + inp.elapsed
         duration == VisitDuration(out.start_time, endTime, inp.engine, inp.tz)
     IN out' = [pc |-> "ended", start_time |-> out.start_time,
                end_time |-> CURRENT_TIMESTAMP(endTime), duration |-> duration,
                payload |-> [end_time |-> endTime, duration |-> duration]]
  /\ UNCHANGED <<formVars, flagVars, storeVars, netVars, procVars, inp, idb, dfm,
                 guard, session, initialSyncComplete>>

InitVisit ==
  /\ FormInit /\ FlagInit /\ StoreInit /\ NetInit /\ ProcInit
  /\ inp \in VisitInputs
  /\ out = [pc |-> "open", start_time |-> CURRENT_TIMESTAMP(inp.start)]
  /\ idb = [i \in Initializers |-> IdbDone]
  /\ dfm = DfIdle
  /\ guard = [g \in Guards |-> FALSE]
  /\ session = [c \in Components |-> NoSession]
  /\ initialSyncComplete = FALSE

NextVisit == endVisitAt

SpecVisit == InitVisit /\ [][NextVisit]_vars

(***************************************************************************)
(* Specification of the startup: initDatabase called by both initializers  *)
(* on an empty store                                                       *)
(***************************************************************************)
InitSeed ==
  /\ FormInit /\ FlagInit /\ NetInit /\ ProcInit
  /\ db = EmptyStore /\ txSnap = NoTx /\ clock = 0
  /\ inp = NoInput /\ out = NoOutput /\ dfm = DfIdle
  /\ guard = [g \in Guards |-> FALSE]
  /\ session = [c \in Components |-> NoSession]
  /\ initialSyncComplete = FALSE
  /\ idb = [i \in Initializers |-> IdbNew]

NextSeed == \E i \in Initializers : initDatabase(i) \/ idbProbe(i) \/ idbStep(i)

SpecSeed == InitSeed /\ [][NextSeed]_vars

(***************************************************************************)
(* Properties                                                              *)
(***************************************************************************)
\* the record_id a repository enqueues for a local row: "a,b" for a junction row
\* (users.ts:234), "response_field" for a field response (part_008:49), else the id
RecordIdOf(t, r) ==
  IF IsCompositeKeyTable(t) THEN Join(r.key, ",")
  ELSE IF t = "form_field_responses" THEN Join(r.fk, "_")
  ELSE toString(r.key[1])

\* C1 - Download atomicity: once a failed downloadUpdates has returned, no local
\* table holds a row it inserted or replaced, and no row it deleted is missing.
DownloadAtomicity ==
  \A n \in DlSlots :
     (dl[n].res = "failed" /\ ~InTx) =>
        /\ \A t \in TableNames : \A r \in db.t[t] : r.by # ByDl(n)
        /\ \A g \in db.gone : g.by # ByDl(n)

\* C2 - Single-flight download: of two overlapping invocations of downloadUpdates
\* at most one ever opens a local transaction.
SingleFlightDownload ==
  \A n \in DlSlots : \A m \in dl[n].with : ~(dl[n].began /\ dl[m].began)

\* C3 - Upload/download mutual exclusion: a processSyncQueue drain (pending rows
\* fetched, cleanup delete not finished) and a downloadUpdates transaction (after
\* BEGIN, before COMMIT or ROLLBACK) are never both in progress.
UploadDownloadExclusion ==
  \A r \in PsqSlots : \A n \in DlSlots :
     ~(psq[r].pc \in {"send", "mark", "cleanup"} /\ dl[n].pc \in {"table", "commit"})

\* C4 - Outbox atomicity: a repository mutation that fails leaves neither its local
\* write nor a sync_queue row behind (the write and its row are durable together).
OutboxAtomicity ==
  (repo.pc = "done" /\ repo.res = "error") =>
     /\ \A t \in TableNames : \A r \in db.t[t] : r.by # ByRepo(repo.n)
     /\ \A g \in db.gone : g.by # ByRepo(repo.n)
     /\ \A k \in 1..Len(db.q) : db.q[k].by # ByRepo(repo.n)

\* C5 - Outbox coverage: when a repository mutation has returned, every row it
\* inserted, updated or deleted has exactly one sync_queue row describing it.
OutboxCoverage ==
  (repo.pc = "done" /\ repo.res = "ok") =>
     LET by == ByRepo(repo.n)
         described(t, id) ==
           {k \in 1..Len(db.q) : /\ db.q[k].by = by
                                 /\ db.q[k].table_name = t
                                 /\ db.q[k].record_id = id}
         removed(t, key) == \E g \in db.gone : g.by = by /\ g.tbl = t /\ g.key = key
     IN /\ \A t \in TableNames : \A r \in db.t[t] :
             (r.by = by /\ ~removed(t, r.key)) =>
                Cardinality(described(t, RecordIdOf(t, r))) = 1
        /\ \A g \in db.gone :
             (g.by = by /\ \A r \in db.t[g.tbl] : r.key # g.key) =>
                Cardinality(described(g.tbl, Join(g.key, ","))) = 1

\* C6 - Retry cap: a sync_queue row whose upload has failed 3 times is never sent
\* to the remote a 4th time.
RetryCap == \A e \in wire : ~e.late

\* C7 - Causal upload order: the remote never applies the mutation of a sync_queue
\* row after it has applied the mutation of a later row of the same record.
CausalUploadOrder == \A e \in wire : ~e.stale

FormSyncSerialization == Cardinality({o \in FormOps : formOp[o] = "running"}) <= 1

\* C11 - Form-sync queueing: an operation queued behind a running one is
\* eventually executed and settled, it is taken from the queue once, and once
\* settled it is never executed again.
FormSyncQueueing ==
  /\ \A o \in FormOps :
        formOp[o] = "queued" ~> formOp[o] \in {"resolved", "rejected"}
  /\ [][\A o \in FormOps :
           /\ formOp[o] \in {"resolved", "rejected"} => formOp'[o] = formOp[o]
           /\ formOp[o] = "running" => formOp'[o] # "queued"
           /\ (formOp[o] = "queued" /\ formOp'[o] # "queued") =>
                 (formOp'[o] = "running" /\ o = Head(formSyncQueue))]_vars
  /\ [](\A i, j \in 1..Len(formSyncQueue) :
           /\ formOp[formSyncQueue[i]] = "queued"
           /\ i # j => formSyncQueue[i] # formSyncQueue[j])

\* an operation that was queued has been run from the queue and has settled
FormSyncQueueingCase ==
  \E o \in execWaiting : formOp[o] \in {"resolved", "rejected"}

\* C12 - Full-sync single-flight: at most one full-sync session, of whatever
\* component, is running its phases at any time.
FullSyncSingleFlight ==
  Cardinality({c \in Components : session[c].pc = "phase"}) <= 1

\* C13 - Pending rows clear only by their own successful upload: a sync_queue
\* row that no longer counts as pending (synced = 1, or deleted) is one whose
\* own mutation the remote has accepted.
ClearedByOwnUpload ==
  \A id \in 1..db.seq :
     (\A k \in 1..Len(db.q) : db.q[k].id = id => db.q[k].synced = 1) =>
        \E e \in wire : e.qid = id /\ e.acc

\* C14 - Phase order: in a full-sync session (at app init, after login, and
\* initializeSync's delayed sync) no upload phase starts before the session's
\* download phases have finished, and the status 'complete' is shown only after
\* every phase has finished.
PhaseOrder ==
  \A c \in {"overlay", "auth", "initial"} :
     LET finished == {session[c].done[i] : i \in 1..Len(session[c].done)}
         uploading == /\ session[c].pc = "phase"
                      /\ Phases(c)[session[c].k] \in UploadPhases
         all == {Phases(c)[i] : i \in 1..Len(Phases(c))}
     IN /\ (uploading \/ finished \cap UploadPhases # {}) =>
              all \cap DownloadPhases \subseteq finished
        /\ session[c].status = "complete" => all \subseteq finished

\* C15 - Replace-table exact sync: after a successful downloadUpdates the local
\* rows of users, companies, roles and forms are exactly the remote rows whose
\* deleted_at is null.
ReplaceTableExactSync ==
  \A n \in DlSlots :
     dl[n].res = "ok" =>
        \A t \in ReplaceTables :
           {<<r.key, r.val>> : r \in db.t[t]} = {<<r.key, r.val>> : r \in ActiveRows(t)}

\* C16 - Debounce: an addToSyncQueue call that arrives while a scheduled upload
\* timer is pending cancels it and starts a fresh timer, so the upload pass runs
\* a quiet period after the last enqueue of a burst.
DebounceRestart ==
  [][(db'.seq = db.seq + 1 /\ syncTimeout # NoTimer) => syncTimeout' = db'.seq]_vars

\* every connectivity probe reports online: an upload pass is not skipped as
\* offline, and an enqueue made while no sync is in progress starts its timer
ProbesOnline ==
  /\ psq[1].pc = "online" => psq'[1].pc # "idle"
  /\ (db'.seq = db.seq + 1 /\ ~syncInProgress) => syncTimeout' = db'.seq

\* C17 - At-least-once upload: if the device is eventually online and stays
\* online, every sync_queue row, whenever it was enqueued, is eventually sent
\* to the remote, without a further enqueue or a manual sync.
AtLeastOnceUpload ==
  <>[][ProbesOnline]_vars =>
     \A id \in 1..MaxQueue :
        (\E k \in 1..Len(db.q) : db.q[k].id = id) ~> (\E e \in wire : e.qid = id)

\* C18 - Exception to Error: when a phase of the app-init session or of the
\* post-login session has thrown, the session's status is 'error'.
ExceptionToError ==
  \A c \in {"overlay", "auth"} :
     session[c].res = "threw" => session[c].status = "error"

\* C19 - Offline short-circuit: the step in which processSyncQueue,
\* downloadUpdates, downloadForms or uploadFormResponses returns because the
\* probe reported offline ends the call without an error and leaves the local
\* tables, the sync_queue rows, the remote store and the guard flags
\* (syncInProgress, globalTransaction, and the timer) unchanged.
OfflineShortCircuit ==
  [][ ( \/ \E r \in PsqSlots : psq[r].pc = "online" /\ psq'[r].pc = "idle"
        \/ \E n \in DlSlots : dl[n].pc = "online" /\ dl'[n].pc = "done"
        \/ ufr.pc = "online" /\ ufr'.pc = "idle"
        \/ dfm.pc = "online" /\ dfm'.pc = "idle" )
      => /\ db' = db /\ txSnap' = txSnap
         /\ remote' = remote /\ wire' = wire
         /\ flagVars' = flagVars
         /\ \A n \in DlSlots : dl[n].pc = "online" /\ dl'[n].pc = "done" =>
               dl'[n].res = "offline"
         /\ (dfm.pc = "online" /\ dfm'.pc = "idle") => dfm'.res = "offline" ]_vars

\* a download and a form download have returned offline while a row was pending
OfflineShortCircuitCase ==
  /\ dl[1].res = "offline"
  /\ dfm.res = "offline"
  /\ \E k \in 1..Len(db.q) : db.q[k].synced = 0

\* C20 - One open transaction: no operation issues BEGIN while a transaction is
\* open on the shared connection, and the operation whose COMMIT or ROLLBACK
\* ends the open transaction is one that has begun a transaction itself.
OneOpenTransaction ==
  [][ /\ \A n \in DlSlots : (dl[n].pc = "begin" /\ dl'[n] # dl[n]) => ~InTx
      /\ (dfm.pc = "begin" /\ dfm' # dfm) => ~InTx
      /\ (repo.pc = "run" /\ repo' # repo) => (repo.prog[repo.ip].s = "BEGIN" => ~InTx)
      /\ (InTx /\ ~txSnap'.open) =>
           /\ \A n \in DlSlots : dl'[n] # dl[n] => dl[n].began
           /\ dfm' # dfm => dfm.began
           /\ repo' # repo => \E i \in 1..(repo.ip - 1) : repo.prog[i].s = "BEGIN" ]_vars

\* C21 - Cancellation safety: when the user may cancel a sync at any moment, the
\* rows a download has written or removed are visible outside a transaction
\* only once that download has committed.
CancellationSafety ==
  ~InTx =>
     \A n \in DlSlots :
        (\/ \E t \in TableNames : \E r \in db.t[t] : r.by = ByDl(n)
         \/ \E g \in db.gone : g.by = ByDl(n))
        => (dl[n].pc = "verify" \/ dl[n].res = "ok")

\* C22 - Initial sync once per install: once the persisted flag
\* initialSyncComplete is set it stays set, and while it is set neither
\* initializeSync nor DataSyncOverlay.checkInitialSync starts the initial sync.
InitialSyncOnce ==
  [][initialSyncComplete =>
       /\ initialSyncComplete'
       /\ \A c \in {"overlay", "initial"} :
            session[c].pc = "idle" => session'[c].pc = "idle"]_vars

\* C23 - Active-visit invariant: every user has at most one visits row that has
\* not been ended.
ActiveVisitInvariant ==
  \A userId \in 1..MaxId :
     Cardinality({r \in db.t["visits"] : r.fk = <<userId>> /\ r.val = "open"}) <= 1

\* C24 - Soft-delete exclusion: a read returns no data of a soft-deleted record,
\* neither as a result nor nested in one: the roles and companies that getUsers
\* lists for a user are not deleted.
SoftDeleteExclusion ==
  \A u \in getUsers(db) :
     /\ \A r \in db.t["roles"] : r.key[1] \in u.roles => ~Deleted(r)
     /\ \A c \in db.t["companies"] : c.key[1] \in u.companies => ~Deleted(c)

\* C25 - Business-rule rejection: no step of a deleteUser call for a user that
\* has a visit or a form response changes users, user_roles, user_companies or
\* sync_queue, and the call fails.
BusinessRuleRejection ==
  [][(repo.fn = "deleteUser" /\ repo.prog = <<BEGIN, THROW>> /\ repo' # repo) =>
       /\ \A t \in {"users", "user_roles", "user_companies"} : db'.t[t] = db.t[t]
       /\ db'.q = db.q
       /\ repo'.pc = "done" => repo'.res = "error"]_vars

EndVisitDuration ==
  out.pc = "ended" =>
     /\ out.duration = [ok |-> TRUE, s |-> inp.elapsed \div 1000]
     /\ out.payload.duration = out.duration


\* C28 - Form visibility: between repository calls, a user assigned to at least one
\* of a created form's companies gets the form with exactly its fields, however many
\* of its companies the user is assigned to; a user assigned to none does not get it.
FormVisibility ==
  repo.pc \in {"idle", "done"} =>
    \A f \in db.t["forms"] : \A userId \in Ids :
       LET fields == {x \in db.t["form_fields"] : x.fk = f.key}
           shared == {c \in AssignedTo(db, "user_companies", userId) :
                        \E fc \in db.t["form_companies"] : fc.key = <<f.key[1], c>>}
       IN IF shared = {}
            THEN \A g \in getForms(db, userId) : g.id # f.key[1]
            ELSE [id |-> f.key[1], fields |-> Cardinality(fields)] \in getForms(db, userId)


\* C29 - Per-row independence: when a pass of processSyncQueue has handled its batch,
\* every row of the batch has been attempted; a rejected row has its retry_count
\* one above the value it had before the rejection and its synced flag 0, an accepted
\* row is marked synced.
PerRowIndependence ==
  \A r \in PsqSlots :
     psq[r].pc = "cleanup" =>
        /\ Len(psq[r].outs) = Len(psq[r].pending)
        /\ \A k \in 1..Len(psq[r].pending) :
              \E j \in 1..Len(db.q) :
                 /\ db.q[j].id = psq[r].pending[k].id
                 /\ IF psq[r].outs[k].ok
                      THEN db.q[j].synced = 1
                      ELSE /\ db.q[j].retry_count = psq[r].outs[k].retry_count + 1
                           /\ db.q[j].synced = 0


\* C30 - Dependency order: every table comes after the tables it references in the
\* order downloadUpdates writes them, and whenever a download is about to write a
\* table, the parents of every record it fetched for it are present locally.
DependencyOrder ==
  /\ \A i \in 1..Len(tables) : \A ref \in References(tables[i].name) :
        \E j \in 1..(i - 1) : tables[j].name = ref.parent
  /\ \A n \in DlSlots :
        dl[n].pc = "table" =>
           Orphans(db, tables[dl[n].idx].name, ActiveRows(tables[dl[n].idx].name)) = {}


\* C31 - Purge exactness: a step removes sync_queue rows only as the cleanup of an
\* upload pass, the cleanup removes exactly the rows that are (synced or given up)
\* and older than the purge age, and no step removes an unsynced row with
\* retry_count below the limit.
PurgeExactness ==
  [][LET Ids0 == {db.q[k].id : k \in 1..Len(db.q)}
         Ids1 == {db'.q[k].id : k \in 1..Len(db'.q)}
         old == {db.q[k].id : k \in {j \in 1..Len(db.q) :
                    /\ db.q[j].synced = 1 \/ db.q[j].retry_count >= MaxRetry
                    /\ db.q[j].created_at < clock - PurgeDays}}
         cleanup == \/ \E r \in PsqSlots : psq[r].pc = "cleanup" /\ psq'[r].pc = "idle"
                    \/ ufr.pc = "cleanup" /\ ufr'.pc = "idle"
     IN /\ cleanup => Ids0 \ Ids1 = old
        /\ ~cleanup => Ids0 \subseteq Ids1]_vars


\* C32 - No loss of unsynced local changes: outside a transaction, every record of
\* users, companies, roles or forms that an unsynced INSERT or UPDATE row of
\* sync_queue names is present locally with the values a local call wrote.
NoLossOfUnsynced ==
  ~InTx =>
    \A k \in 1..Len(db.q) :
       LET change == db.q[k]
       IN (/\ change.synced = 0
           /\ change.table_name \in {"users", "companies", "roles", "forms"}
           /\ change.operation \in {"INSERT", "UPDATE"})
          => \E r \in db.t[change.table_name] :
                /\ r.key = <<parseInt(change.record_id)>>
                /\ r.by[1] = "repo"


\* C33 - Remote key identity: when an upload engine has sent the upsert of a row of
\* a single-key table, the id it sent is the id of the local row that the
\* sync_queue row names.
KeySentIs(change, req) ==
  (~IsCompositeKeyTable(change.table_name) /\ change.operation \in {"INSERT", "UPDATE"})
    => \A row \in db.t[change.table_name] :
          RecordIdOf(change.table_name, row) = change.record_id => row.key = req.vals

RemoteKeyIdentity ==
  /\ \A r \in PsqSlots :
        psq[r].pc = "mark" =>
           KeySentIs(psq[r].pending[psq[r].k], Dispatch(psq[r].pending[psq[r].k]))
  /\ ufr.pc = "mark" =>
        KeySentIs(ufr.pending[ufr.k], ResponseRequest(ufr.pending[ufr.k]))


\* C34 - Outbox row lifecycle is monotonic: no step sends the change of a row whose
\* synced flag is 1, no step takes a synced flag back to 0 or changes the
\* retry_count of a synced row, and no step lowers a retry_count.
OutboxMonotonic ==
  [][/\ \A e \in wire' \ wire :
           \A k \in 1..Len(db.q) : db.q[k].id = e.qid => db.q[k].synced = 0
     /\ \A k \in 1..Len(db.q) : \A j \in 1..Len(db'.q) :
           db'.q[j].id = db.q[k].id =>
              /\ db'.q[j].retry_count >= db.q[k].retry_count
              /\ db.q[k].synced = 1 =>
                    /\ db'.q[j].synced = 1
                    /\ db'.q[j].retry_count = db.q[k].retry_count]_vars


\* C35 - Guard flags reflect reality: syncInProgress is set while a drain of
\* processSyncQueue or a run of downloadUpdates is executing, globalTransaction is
\* set while a download's transaction is open, and both are clear when no run is
\* executing.
GuardFlagsReflectReality ==
  LET draining == \E r \in PsqSlots : psq[r].pc \in {"select", "send", "mark", "cleanup"}
      downloading == \E n \in DlSlots :
                        dl[n].pc \in {"begin", "table", "commit", "verify", "rollback"}
      transaction == \E n \in DlSlots : dl[n].pc \in {"table", "commit"}
  IN /\ (draining \/ downloading) => syncInProgress
     /\ transaction => globalTransaction
     /\ ~(draining \/ downloading) => (~syncInProgress /\ ~globalTransaction)


\* C36 - Truthful completion: the post-login sync session (AuthProvider.performSync)
\* reports status 'complete' only if, within that session, neither downloadUpdates nor
\* processSyncQueue returned early (guard held by another sync, connectivity probe
\* failed).
TruthfulCompletion ==
  (session["auth"].pc = "idle" /\ session["auth"].res = "complete"
     /\ session["auth"].status = "complete")
    => session["auth"].early = {}

\* C37 - Initial-sync flag soundness: a step that sets the persisted flag
\* initialSyncComplete is the last step of a session in which neither processSyncQueue
\* nor downloadUpdates returned early, and which was not cancelled.
InitialSyncFlagSound ==
  [][ (~initialSyncComplete /\ initialSyncComplete') =>
        \E c \in {"overlay", "initial"} :
          /\ session[c].pc = "phase"
          /\ session'[c].res = "complete"
          /\ session'[c].early = {}
          /\ ~session[c].cancelled ]_vars


\* C38 - Form-sync FIFO: form sync operations start in the order in which they were
\* submitted to queueFormSync: when an operation has started, no operation submitted
\* before it is still waiting in the queue.
FormSyncFifo ==
  \A p, q \in FormOps :
    (p < q /\ formOp[q] \in {"running", "resolved", "rejected"}) => formOp[p] # "queued"


\* the record_ids of the sync_queue rows of table t with the given operation, and such
\* rows occurring once each
QueuedIds(t, operation) ==
  {db.q[i].record_id : i \in {j \in 1..Len(db.q) : /\ db.q[j].table_name = t
                                                   /\ db.q[j].operation = operation}}

QueuedOnce(t) ==
  \A i, j \in 1..Len(db.q) :
    (/\ db.q[i].table_name = t /\ db.q[j].table_name = t
     /\ db.q[i].record_id = db.q[j].record_id
     /\ db.q[i].operation = db.q[j].operation) => i = j

JunctionDiffOf(t, current, wanted) ==
  /\ QueuedIds(t, "INSERT") = {Join(<<1, x>>, ",") : x \in wanted \ current}
  /\ QueuedIds(t, "DELETE") = {Join(<<1, x>>, ",") : x \in current \ wanted}
  /\ QueuedIds(t, "UPDATE") = {}
  /\ QueuedOnce(t)
  /\ AssignedTo(db, t, 1) = wanted

\* the diff is in the outbox and the junction rows are the requested ones
JunctionDiffDone ==
  /\ JunctionDiffOf("user_roles", inp.R, inp.roleIds)
  /\ JunctionDiffOf("user_companies", inp.C, inp.companyIds)

\* C39 - Junction diff on updateUser: when updateUser(1, ..., roleIds, companyIds)
\* returns for a user whose role set was R and company set was C, the sync_queue holds
\* an INSERT row with record_id '1,x' for exactly each x in roleIds minus R (companyIds
\* minus C), a DELETE row for exactly each x in R minus roleIds (C minus companyIds),
\* no row for an unchanged assignment, and the user's local junction rows are exactly
\* roleIds and companyIds.
JunctionDiff ==
  [][ (repo.pc = "run" /\ repo'.pc = "done" /\ repo'.res = "ok") => JunctionDiffDone' ]_vars

====
